---- MODULE Spec2Model ----
(***************************************************************************)
(* Bulk-MKV-Manipulation: the file matcher's batch loop                    *)
(* (FileProcessor::process), the per-file pipeline (MediaFile::process)    *)
(* and the track filter (MediaFile::filter_tracks).                        *)
(*                                                                         *)
(* Eight specifications share the module:                                  *)
(*   Spec        the batch: setup (from_path per input file), then the     *)
(*               processing loop with one action per pipeline stage;       *)
(*   SpecFilter  one filter pass over a track list, one loop iteration     *)
(*               per step, followed by the mux language arguments;         *)
(*   SpecTitle   the title predicates and initialize_filters;              *)
(*   SpecMatcher the name list, its pairing with the input files and       *)
(*               the natural sort;                                         *)
(*   SpecCreate  concurrent MediaFile::from_path calls on UNIQUE_ID;       *)
(*   SpecConvert convert_all_audio, one track per step;                    *)
(*   SpecMux     apply_track_mux_params, one track per step;               *)
(*   SpecAttach  filter_internal_attachments, then the extraction of       *)
(*               the attachments.                                          *)
(*                                                                         *)
(* Rust Option<T> values are modelled as sets: {} is None, {v} is Some(v). *)
(* A HashMap is a function whose DOMAIN is the set of keys present.        *)
(***************************************************************************)
EXTENDS Integers, Sequences, FiniteSets, TLC

VARIABLES
    input_paths,    \* FileProcessor.input_paths
    output_paths,   \* FileProcessor.output_paths
    titles,         \* FileProcessor.titles
    params,         \* the UnifiedParams handed to FileProcessor::process
    UNIQUE_ID,      \* the static id counter of media_file.rs
    media,          \* the Vec<MediaFile> built by the setup filter_map
    pc,             \* position of the batch / of the pipeline of file i
    k,              \* next position of input_paths handed to from_path
    i,              \* loop index of FileProcessor::process (1-based)
    success,        \* the success flag of FileProcessor::process
    log,            \* history: one entry per stage that has run
    warnings,       \* the soft failures logged so far for file i
    shutdowns,      \* the shutdown attempts of the run: the log length at the call and its result
    f_params,       \* filter pass: the UnifiedParams
    f_original,     \* filter pass: the track list as from_path deserialized it
    f_input,        \* filter pass: the track list filter_tracks was called on
    f_tracks,       \* filter pass: self.media.tracks
    f_index,        \* filter pass: loop index (0-based, as in the code)
    f_kept,         \* filter pass: the kept vector
    f_counter,      \* filter pass: self.track_type_counter
    f_pc,           \* filter pass: position
    f_success,      \* filter pass: the value filter_tracks returns
    f_args,         \* filter pass: per-track mux arguments of the kept list
    t_profile,      \* title filters: the three categories' title predicates
    t_pc,           \* title filters: position
    t_initialized,  \* title filters: the value initialize_filters returned
    t_needle,       \* title filters: the category and title of the last is_match
    t_match,        \* title filters: the value the last is_match returned
    m_profile,      \* matcher: the InputProfile, name-list file and input directory
    m_self,         \* matcher: the FileProcessor under construction
    m_line,         \* matcher: number of name-list lines read so far
    m_index,        \* matcher: the index counter of build_output_list
    m_pc,           \* matcher: position
    m_result,       \* matcher: what FileProcessor::new returned
    c_UNIQUE_ID,    \* creation: the static id counter of media_file.rs
    c_pc,           \* creation: position of each thread inside from_path
    c_left,         \* creation: input files each thread has still to open
    c_created,      \* creation: the MediaFile instances, in creation order
    c_dirs,         \* creation: temp subdirectory -> instances that set it up
    a_tracks,       \* conversion: self.media.tracks of the file
    a_params,       \* conversion: the audio conversion parameters
    a_index,        \* conversion: position of convert_all_audio's loop
    a_files,        \* conversion: the files of the temp tracks directory
    a_calls,        \* conversion: the encoder invocations made so far
    a_updated,      \* conversion: update_indices
    a_pc,           \* conversion: position
    a_result,       \* conversion: what convert_all_audio returned
    x_tracks,       \* mux arguments: the kept tracks of the file
    x_track_params, \* mux arguments: params.track_params
    x_index,        \* mux arguments: loop index of apply_track_mux_params
    x_args,         \* mux arguments: the arguments pushed, per track
    x_warnings,     \* mux arguments: the flag warnings printed, per track
    x_pc,           \* mux arguments: position
    e_container,    \* attachments: the attachment names of the container
    e_params,       \* attachments: params.attachments
    e_attachments,  \* attachments: self.attachments
    e_args,         \* attachments: the arguments handed to mkvextract
    e_written,      \* attachments: file name -> payload written by mkvextract
    e_pc            \* attachments: position

batch_vars == <<input_paths, output_paths, titles, params, UNIQUE_ID, media,
                pc, k, i, success, log, warnings, shutdowns>>
filter_vars == <<f_params, f_original, f_input, f_tracks, f_index, f_kept,
                 f_counter, f_pc, f_success, f_args>>
title_vars == <<t_profile, t_pc, t_initialized, t_needle, t_match>>
matcher_vars == <<m_profile, m_self, m_line, m_index, m_pc, m_result>>
create_vars == <<c_UNIQUE_ID, c_pc, c_left, c_created, c_dirs>>
convert_vars == <<a_tracks, a_params, a_index, a_files, a_calls, a_updated,
                  a_pc, a_result>>
mux_vars == <<x_tracks, x_track_params, x_index, x_args, x_warnings, x_pc>>
attach_vars == <<e_container, e_params, e_attachments, e_args, e_written, e_pc>>
vars == <<input_paths, output_paths, titles, params, UNIQUE_ID, media,
          pc, k, i, success, log, warnings, shutdowns,
          f_params, f_original, f_input, f_tracks, f_index, f_kept, f_counter,
          f_pc, f_success, f_args,
          t_profile, t_pc, t_initialized, t_needle, t_match,
          m_profile, m_self, m_line, m_index, m_pc, m_result,
          c_UNIQUE_ID, c_pc, c_left, c_created, c_dirs,
          a_tracks, a_params, a_index, a_files, a_calls, a_updated, a_pc, a_result,
          x_tracks, x_track_params, x_index, x_args, x_warnings, x_pc,
          e_container, e_params, e_attachments, e_args, e_written, e_pc>>

(***************************************************************************)
(* Bounds of the model.                                                    *)
(***************************************************************************)
MaxFiles == 2
MaxTracks == 3
MaxQuota == 2

None == {}
Some(v) == {v}

\* The parts of the program a specification does not exercise stay as
\* they are before their first use.
TitleIdle ==
    /\ t_profile = <<>> /\ t_pc = "idle" /\ t_initialized = TRUE
    /\ t_needle = <<>> /\ t_match = TRUE

MatcherIdle ==
    /\ m_profile = <<>> /\ m_self = <<>> /\ m_line = 0 /\ m_index = 0
    /\ m_pc = "idle" /\ m_result = None

CreateIdle ==
    /\ c_UNIQUE_ID = 0 /\ c_pc = <<>> /\ c_left = <<>> /\ c_created = <<>>
    /\ c_dirs = <<>>

ConvertIdle ==
    /\ a_tracks = <<>> /\ a_params = <<>> /\ a_index = 0 /\ a_files = {}
    /\ a_calls = <<>> /\ a_updated = <<>> /\ a_pc = "idle" /\ a_result = None

MuxIdle ==
    /\ x_tracks = <<>> /\ x_track_params = None /\ x_index = 0 /\ x_args = <<>>
    /\ x_warnings = <<>> /\ x_pc = "idle"

AttachIdle ==
    /\ e_container = <<>> /\ e_params = <<>> /\ e_attachments = <<>>
    /\ e_args = <<>> /\ e_written = <<>> /\ e_pc = "idle"

(***************************************************************************)
(* Tracks.                                                                 *)
(***************************************************************************)
TrackType == {"Audio", "Button", "General", "Menu", "Other", "Subtitle", "Video"}

default_track_language == "und"

MkTrack(type, id, language, codec) ==
    [track_type |-> type, id |-> id, language |-> language, codec |-> codec]

\* The general pseudo-track MediaInfo reports first (no StreamOrder: id 0).
GeneralTrack == MkTrack("General", 0, default_track_language, "Unknown")

(***************************************************************************)
(* Track predicates (conversion_params/unified.rs).                        *)
(***************************************************************************)
PredNone == [kind |-> "None", language_ids |-> {}, indices |-> {}]
PredLanguages(ids) == [kind |-> "Languages", language_ids |-> ids, indices |-> {}]
PredIndices(ids) == [kind |-> "Indices", language_ids |-> {}, indices |-> ids]

\* TrackLanguagePredicate::is_match
LanguageIsMatch(ids, needle) == ids = {} \/ needle \in ids

\* TrackIndexPredicate::is_match
IndexIsMatch(ids, needle) == ids = {} \/ needle \in ids

\* The per-category parameters should_keep_track selects by track type.
CategoryParams(p, track_type) ==
    CASE track_type = "Audio" -> p.audio_tracks
      [] track_type = "Subtitle" -> p.subtitle_tracks
      [] track_type = "Video" -> p.video_tracks

\* HashMap::get(..).cloned().unwrap_or_default()
CounterGetOrDefault(counter, track_type) ==
    IF track_type \in DOMAIN counter THEN counter[track_type] ELSE 0

\* *counter.entry(track_type).or_default() += 1
CounterIncrement(counter, track_type) ==
    IF track_type \in DOMAIN counter
    THEN [counter EXCEPT ![track_type] = @ + 1]
    ELSE counter @@ (track_type :> 1)

EmptyCounter == [t \in {} |-> 0]

\* The quota test of should_keep_track with the comparison off by one.
QuotaReached_Late(counter, track_type, tracks_to_retail) ==
    \E count \in tracks_to_retail :
        /\ track_type \in DOMAIN counter
        /\ counter[track_type] > count

\* Is a track limiter in place, and has the target number been reached?
\* The counter is only consulted when it has an entry for the track type.
QuotaReached(counter, track_type, tracks_to_retail) ==
    \E count \in tracks_to_retail :
        /\ track_type \in DOMAIN counter
        /\ counter[track_type] >= count

\* The predicate match at the end of should_keep_track; index is 0-based.
PredicateMatches(predicate, tracks, index) ==
    CASE predicate.kind = "Indices" -> (index - 1) \in predicate.indices
      [] predicate.kind = "Languages" ->
            LanguageIsMatch(predicate.language_ids, tracks[index + 1].language)
      [] OTHER -> TRUE

\* should_keep_track with menu tracks handled like button and other ones.
ShouldKeepTrack_MenuAsOther(tracks, counter, track_type, index, p) ==
    IF track_type \in {"General"} THEN FALSE
    ELSE IF track_type \in {"Button", "Other", "Menu"}
         THEN p.other_tracks.import_from_original
    ELSE LET cat == CategoryParams(p, track_type) IN
         IF QuotaReached(counter, track_type, cat.total_to_retain) THEN FALSE
         ELSE PredicateMatches(cat.predicate, tracks, index)

\* MediaFile::should_keep_track
ShouldKeepTrack(tracks, counter, track_type, index, p) ==
    IF track_type \in {"General", "Menu"} THEN FALSE
    ELSE IF track_type \in {"Button", "Other"}
         THEN p.other_tracks.import_from_original
    ELSE LET cat == CategoryParams(p, track_type) IN
         IF QuotaReached(counter, track_type, cat.total_to_retain) THEN FALSE
         ELSE PredicateMatches(cat.predicate, tracks, index)

\* One iteration of the loop of filter_tracks over track `index` (0-based):
\* the kept vector and the counter after it.
FilterIterate(tracks, kept, counter, index, p) ==
    LET track == tracks[index + 1] IN
    IF ShouldKeepTrack(tracks, counter, track.track_type, index, p)
    THEN [kept |-> Append(kept, track),
          counter |-> CounterIncrement(counter, track.track_type)]
    ELSE [kept |-> kept, counter |-> counter]

\* The quota validation of filter_tracks with the comparison dropped.
QuotasMet_Always(counter, p) == TRUE

\* The quota validation after the loop of filter_tracks.
QuotasMet(counter, p) ==
    \A target_type \in {"Audio", "Subtitle", "Video"} :
        LET target == CategoryParams(p, target_type).total_to_retain IN
        \/ target = None
        \/ \A n \in target : CounterGetOrDefault(counter, target_type) = n

RECURSIVE FilterLoop(_, _, _, _, _)
FilterLoop(tracks, kept, counter, index, p) ==
    IF index >= Len(tracks) THEN [kept |-> kept, counter |-> counter]
    ELSE LET r == FilterIterate(tracks, kept, counter, index, p) IN
         FilterLoop(tracks, r.kept, r.counter, index + 1, p)

\* MediaFile::filter_tracks as one call: the tracks left, the counter and
\* the returned flag.
FilterTracks(tracks, counter, p) ==
    LET r == FilterLoop(tracks, <<>>, counter, 0, p) IN
    [tracks |-> r.kept, counter |-> r.counter, success |-> QuotasMet(r.counter, p)]

\* The language argument with the video override left out.
MuxLanguage_NoVideoOverride(track) == track.language

\* The language argument apply_track_mux_params emits for a track.
MuxLanguage(track) ==
    IF track.track_type = "Video" THEN "und" ELSE track.language

\* MediaFileTrack::get_out_file_name without the extension lookup.
OutFileName(track) == <<track.track_type, track.id, track.language, track.codec>>

\* MediaFile::apply_track_mux_params: language and file argument per track.
ApplyTrackMuxParams(tracks) ==
    [j \in 1..Len(tracks) |->
        [language |-> MuxLanguage(tracks[j]), file |-> OutFileName(tracks[j])]]

(***************************************************************************)
(* The filter pass, one loop iteration per step (SpecFilter).              *)
(***************************************************************************)
\* Kinds of track the metadata extractor may report after the general one.
TrackKinds ==
    { [track_type |-> "Video", language |-> "und", codec |-> "H264"],
      [track_type |-> "Audio", language |-> "ja", codec |-> "Flac"],
      [track_type |-> "Audio", language |-> "und", codec |-> "Opus"],
      [track_type |-> "Subtitle", language |-> "en", codec |-> "AdvancedSsa"],
      [track_type |-> "Other", language |-> "und", codec |-> "Unknown"],
      [track_type |-> "Menu", language |-> "und", codec |-> "Unknown"],
      [track_type |-> "Button", language |-> "und", codec |-> "Unknown"] }

\* A track list as parse_json delivers it: the general pseudo-track first,
\* then the real tracks with their StreamOrder 0, 1, ...
TrackListOf(kinds) ==
    <<GeneralTrack>> \o
    [j \in 1..Len(kinds) |->
        MkTrack(kinds[j].track_type, j - 1, kinds[j].language, kinds[j].codec)]

TrackLists ==
    { TrackListOf(s) : s \in UNION { [1..n -> TrackKinds] : n \in 0..MaxTracks } }

\* The track list of the end-to-end example:
\* [general, video, audio(ja), audio(en), subtitle(en)].
ExampleTracks ==
    <<GeneralTrack,
      MkTrack("Video", 0, "en", "H264"),
      MkTrack("Audio", 1, "ja", "Flac"),
      MkTrack("Audio", 2, "en", "Opus"),
      MkTrack("Subtitle", 3, "en", "AdvancedSsa")>>

CategoryPolicy(predicate, total_to_retain) ==
    [predicate |-> predicate, total_to_retain |-> total_to_retain,
     conversion |-> None, default_language |-> None]

Quotas == {None} \cup { Some(n) : n \in 0..MaxQuota }

RichPolicies ==
    { CategoryPolicy(pr, q) :
        pr \in {PredNone, PredLanguages({"ja"}), PredLanguages({"en"}),
                PredLanguages({}), PredIndices({0, 2}), PredIndices({})},
        q \in Quotas }
    \cup
    { [CategoryPolicy(pr, q) EXCEPT !.default_language = Some("ja")] :
        pr \in {PredNone, PredLanguages({"ja"})},
        q \in {None, Some(1)} }

SimplePolicies == { CategoryPolicy(PredNone, None) }

\* The rich policies of the categories with one kind of track (subtitle,
\* video): no quota or a quota of one.
NarrowPolicies == { p \in RichPolicies : p.total_to_retain \in {None, Some(1)} }

\* The policy of the end-to-end example.
ExamplePolicy(other) ==
    [audio_tracks |-> CategoryPolicy(PredLanguages({"ja"}), Some(1)),
     subtitle_tracks |-> CategoryPolicy(PredLanguages({"en"}), Some(1)),
     video_tracks |-> CategoryPolicy(PredNone, None),
     other_tracks |-> [import_from_original |-> other],
     attachments |-> [import_from_original |-> FALSE],
     chapters |-> [import_from_original |-> FALSE],
     track_params |-> None,
     misc |-> [remove_original_file |-> None, remove_temp_files |-> None,
               shutdown_upon_completion |-> None, run |-> <<>>]]

MiscDefault ==
    [remove_original_file |-> None, remove_temp_files |-> None,
     shutdown_upon_completion |-> None, run |-> <<>>]

MkParams(audio, subtitle, video, other, misc) ==
    [audio_tracks |-> audio, subtitle_tracks |-> subtitle, video_tracks |-> video,
     other_tracks |-> [import_from_original |-> other],
     attachments |-> [import_from_original |-> FALSE],
     chapters |-> [import_from_original |-> FALSE],
     track_params |-> None,
     misc |-> misc]

\* Policies of the filter pass: one category carries a rich policy, the
\* other two a simple one.
FilterParams ==
    { MkParams(a, s, v, o, MiscDefault) :
        a \in RichPolicies, s \in SimplePolicies, v \in SimplePolicies, o \in BOOLEAN }
    \cup
    { MkParams(a, s, v, o, MiscDefault) :
        a \in SimplePolicies, s \in NarrowPolicies, v \in SimplePolicies, o \in BOOLEAN }
    \cup
    { MkParams(a, s, v, o, MiscDefault) :
        a \in SimplePolicies, s \in SimplePolicies, v \in NarrowPolicies, o \in BOOLEAN }
    \cup
    { ExamplePolicy(o) : o \in BOOLEAN }

BatchIdle ==
    /\ input_paths = <<>> /\ output_paths = <<>> /\ titles = <<>>
    /\ params = MkParams(CategoryPolicy(PredNone, None), CategoryPolicy(PredNone, None),
                         CategoryPolicy(PredNone, None), FALSE, MiscDefault)
    /\ UNIQUE_ID = 0 /\ media = <<>> /\ pc = "idle" /\ k = 1 /\ i = 1
    /\ success = TRUE /\ log = <<>> /\ warnings = {} /\ shutdowns = <<>>

FilterIdle ==
    /\ f_params = MkParams(CategoryPolicy(PredNone, None), CategoryPolicy(PredNone, None),
                           CategoryPolicy(PredNone, None), FALSE, MiscDefault)
    /\ f_original = <<>> /\ f_input = <<>>
    /\ f_tracks = <<>> /\ f_index = 0 /\ f_kept = <<>> /\ f_counter = EmptyCounter
    /\ f_pc = "idle" /\ f_success = TRUE /\ f_args = <<>>

\* A freshly deserialized MediaFile (track_type_counter is #[serde(skip)],
\* hence empty) on entry to process.
InitFilter ==
    /\ BatchIdle
    /\ TitleIdle
    /\ MatcherIdle
    /\ CreateIdle
    /\ ConvertIdle
    /\ MuxIdle
    /\ AttachIdle
    /\ f_params \in FilterParams
    /\ f_tracks \in TrackLists \cup {ExampleTracks}
    /\ f_original = f_tracks
    /\ f_input = f_tracks
    /\ f_index = 0
    /\ f_kept = <<>>
    /\ f_counter = EmptyCounter
    /\ f_pc = "defaults"
    /\ f_success = TRUE
    /\ f_args = <<>>

\* process without the language backfill.
ApplyTrackLanguageDefaults_Skipped(tracks, p) == tracks

\* MediaFile::apply_track_language_defaults
ApplyTrackLanguageDefaults(tracks, p) ==
    [j \in 1..Len(tracks) |->
        LET t == tracks[j] IN
        IF /\ t.track_type \in {"Audio", "Subtitle", "Video"}
           /\ CategoryParams(p, t.track_type).default_language # None
           /\ t.language = "und"
        THEN [t EXCEPT !.language =
                CHOOSE l \in CategoryParams(p, t.track_type).default_language : TRUE]
        ELSE t]

\* process, lines 783-794: the default languages are applied to all the
\* tracks of the file; filter_tracks is called on the result.
FilterDefaults ==
    /\ f_pc = "defaults"
    /\ f_tracks' = ApplyTrackLanguageDefaults(f_tracks, f_params)
    /\ f_input' = f_tracks'
    /\ f_pc' = "loop"
    /\ UNCHANGED <<f_params, f_original, f_index, f_kept, f_counter, f_success, f_args>>
    /\ UNCHANGED <<batch_vars, title_vars, matcher_vars>>
    /\ UNCHANGED <<create_vars, convert_vars, mux_vars, attach_vars>>

\* filter_tracks, lines 565-582: one iteration of the loop over the tracks.
FilterStep ==
    /\ f_pc = "loop"
    /\ f_index < Len(f_tracks)
    /\ LET r == FilterIterate(f_tracks, f_kept, f_counter, f_index, f_params) IN
        /\ f_kept' = r.kept
        /\ f_counter' = r.counter
    /\ f_index' = f_index + 1
    /\ UNCHANGED <<f_params, f_original, f_input, f_tracks, f_pc, f_success, f_args>>
    /\ UNCHANGED <<batch_vars, title_vars, matcher_vars>>
    /\ UNCHANGED <<create_vars, convert_vars, mux_vars, attach_vars>>

\* filter_tracks, lines 584-623: quota validation, the kept list replaces
\* the track list, the flag is returned.
FilterFinish ==
    /\ f_pc = "loop"
    /\ f_index >= Len(f_tracks)
    /\ f_success' = QuotasMet(f_counter, f_params)
    /\ f_tracks' = f_kept
    /\ f_pc' = "filtered"
    /\ UNCHANGED <<f_params, f_original, f_input, f_index, f_kept, f_counter, f_args>>
    /\ UNCHANGED <<batch_vars, title_vars, matcher_vars>>
    /\ UNCHANGED <<create_vars, convert_vars, mux_vars, attach_vars>>

\* remux_file -> apply_track_mux_params over the kept list; process only
\* gets there when filter_tracks returned true.
FilterMux ==
    /\ f_pc = "filtered"
    /\ f_success
    /\ f_args' = ApplyTrackMuxParams(f_tracks)
    /\ f_pc' = "muxed"
    /\ UNCHANGED <<f_params, f_original, f_input, f_tracks, f_index, f_kept, f_counter,
                   f_success>>
    /\ UNCHANGED <<batch_vars, title_vars, matcher_vars>>
    /\ UNCHANGED <<create_vars, convert_vars, mux_vars, attach_vars>>

NextFilter == FilterDefaults \/ FilterStep \/ FilterFinish \/ FilterMux

SpecFilter == InitFilter /\ [][NextFilter]_vars

(***************************************************************************)
(* External tool adapters (mkvtoolnix.rs, converters.rs).                  *)
(***************************************************************************)
\* The ways a subprocess can end: an exit code, no exit code (killed by a
\* signal), or a failure to launch (Command::output returns Err).
AdapterOutcomes == {"exit0", "exit1", "exit2", "exit3", "no_code", "launch_err"}

\* mkvtoolnix.rs FAIL_ERROR_CODE
MKV_FAIL_ERROR_CODE == 2
\* converters.rs FAIL_ERROR_CODE
FFMPEG_FAIL_ERROR_CODE == 1

ExitCode(o) ==
    CASE o = "exit0" -> 0 [] o = "exit1" -> 1 [] o = "exit2" -> 2 [] o = "exit3" -> 3

\* The `result` of run_extract / run_merge / run_ffmpeg.
AdapterResult(o, fail_code) ==
    IF o \in {"no_code", "launch_err"} THEN fail_code ELSE ExitCode(o)

\* output.unwrap() in the result == FAIL_ERROR_CODE branch panics on Err.
AdapterPanics(o, fail_code) ==
    AdapterResult(o, fail_code) = fail_code /\ o = "launch_err"

\* The match on the adapter's code in extract_* and remux_file:
\* 0 | 1 => true, 2 => false, _ => true.
MkvOutcome(o) ==
    IF AdapterPanics(o, MKV_FAIL_ERROR_CODE) THEN "panic"
    ELSE IF AdapterResult(o, MKV_FAIL_ERROR_CODE) = 2 THEN "fail"
    ELSE "ok"

\* convert_audio_file: run_ffmpeg(&args) == 0.
FfmpegOutcome(o) ==
    IF AdapterPanics(o, FFMPEG_FAIL_ERROR_CODE) THEN "panic"
    ELSE IF AdapterResult(o, FFMPEG_FAIL_ERROR_CODE) = 0 THEN "ok"
    ELSE "fail"

\* MediaFile::extract(true, extract_attachments, extract_chapters): ot, oa
\* and oc are the outcomes of the three mkvextract runs, were they made.
Extract(m, extract_attachments, extract_chapters, ot, oa, oc) ==
    LET tr == IF m.tracks = <<>> THEN "ok" ELSE MkvOutcome(ot)
        at == IF tr # "ok" THEN tr
              ELSE IF ~extract_attachments \/ m.attachments = <<>> THEN "ok"
              ELSE MkvOutcome(oa)
        ch == IF at # "ok" THEN at
              ELSE IF ~extract_chapters THEN "ok"
              ELSE MkvOutcome(oc)
    IN [result |-> ch,
        launched |-> m.tracks # <<>>,
        attachments |-> IF tr = "ok" /\ extract_attachments
                        THEN m.attachments ELSE <<>>]

\* Codec::from(AudioCodec).
CodecFromAudioCodec(ac) ==
    CASE ac = "Aac" -> "Aac" [] ac = "AacLibfdk" -> "Aac" [] ac = "Ac3" -> "Ac3"
      [] ac = "Flac" -> "Flac" [] ac = "Mp2" -> "Mp2" [] ac = "Mp3Lame" -> "Mp3"
      [] ac = "Mp3Shine" -> "Mp3" [] ac = "Opus" -> "Opus" [] ac = "Vorbis" -> "Opus"
      [] ac = "WavPack" -> "WavPack4"

AudioIndices(tracks) == { j \in 1..Len(tracks) : tracks[j].track_type = "Audio" }

\* MediaFile::convert_all_audio: outs[j] is how the conversion of track j
\* ends ("ok", "fail": rename failed, no argument list or ffmpeg code # 0,
\* "panic": ffmpeg could not be launched).  The first track that does not
\* end "ok" ends the call; codecs are only updated when all ended "ok".
ConvertAllAudio(tracks, codec, outs) ==
    LET audio == AudioIndices(tracks)
        bad == { j \in audio : outs[j] # "ok" }
        first == IF bad = {} THEN 0 ELSE CHOOSE j \in bad : \A l \in bad : j <= l
    IN IF bad = {}
       THEN [result |-> "ok", launched |-> audio # {},
             tracks |-> [j \in 1..Len(tracks) |->
                          IF j \in audio
                          THEN [tracks[j] EXCEPT !.codec = CodecFromAudioCodec(codec)]
                          ELSE tracks[j]]]
       ELSE [result |-> outs[first], launched |-> TRUE, tracks |-> tracks]

\* Does run_commands launch a command of the given type?  Each configured
\* command is [type, exists]: its type and whether its path exists.
\* A command whose path does not exist ends the whole call.
RECURSIVE HookLaunches(_, _)
HookLaunches(commands, run_type) ==
    IF commands = <<>> THEN 0
    ELSE IF Head(commands).type # run_type THEN HookLaunches(Tail(commands), run_type)
    ELSE IF ~Head(commands).exists THEN 0
    ELSE 1 + HookLaunches(Tail(commands), run_type)

(***************************************************************************)
(* Mux arguments of the attachments and the per-track flags.               *)
(***************************************************************************)
\* A file name is the sequence of its dot-separated segments:
\* <<"font", "ttf">> is "font.ttf", <<"README">> has no extension.
\* str::to_lowercase on the extensions of the model.
ExtToLowercase(e) ==
    CASE e = "TTF" -> "ttf" [] e = "OTF" -> "otf" [] e = "PNG" -> "png" [] OTHER -> e

\* utils::get_file_extension: what follows the last dot, lower-cased.
GetFileExtension(name) ==
    IF Len(name) < 2 THEN None ELSE Some(ExtToLowercase(name[Len(name)]))

\* MediaFile::add_attachment_if_matching for the file `name` of a directory;
\* `exists` is what utils::file_exists answers for its path.  A selected
\* file that is missing is logged and skipped.
AddAttachmentIfMatching(name, accepted_extensions, exists) ==
    LET valid_extensions == UNION accepted_extensions
        ext == GetFileExtension(name)
        is_match == IF ext # None
                    THEN valid_extensions = {} \/ ext \subseteq valid_extensions
                    ELSE valid_extensions = {}
    IN IF name = <<>> \/ ~is_match THEN [args |-> <<>>, warned |-> FALSE]
       ELSE IF ~exists THEN [args |-> <<>>, warned |-> TRUE]
       ELSE [args |-> <<[name |-> name, file |-> name]>>, warned |-> FALSE]

\* utils::bool_to_yes_no
BoolToYesNo(b) == IF b THEN "yes" ELSE "no"

\* all_track_params.iter().find(|t| t.id == track_id)
RECURSIVE FindTrackParams(_, _)
FindTrackParams(all_track_params, track_id) ==
    IF all_track_params = <<>> THEN None
    ELSE IF Head(all_track_params).id = track_id THEN Some(Head(all_track_params))
    ELSE FindTrackParams(Tail(all_track_params), track_id)

\* A TrackParams entry with nothing configured.
NoTrackParams(id) ==
    [id |-> id, default |-> None, enabled |-> None, forced |-> None,
     hearing_impaired |-> None, visual_impaired |-> None,
     text_descriptions |-> None, original |-> None, commentary |-> None,
     delay_override |-> None]

\* One `if let Some(b) = setting` block of apply_additional_track_mux_params:
\* the flag is inserted into param_opts when the track type supports it,
\* otherwise a warning is printed.
FlagBlock(flag, setting, supported) ==
    [opts |-> IF supported THEN { [flag |-> flag, value |-> BoolToYesNo(b)] : b \in setting }
              ELSE {},
     warned |-> IF setting # None /\ ~supported THEN {flag} ELSE {}]

\* MediaFile::apply_additional_track_mux_params for the track at position
\* track_id (0-based) of `tracks`: the "--<flag>-flag 0:<yes|no>" arguments
\* pushed (param_opts is a HashMap, so their order is not fixed) and the
\* flags a warning was printed for.
ApplyAdditionalTrackMuxParams(tracks, track_id, all_track_params) ==
    LET found == IF all_track_params = None THEN None
                 ELSE FindTrackParams(CHOOSE x \in all_track_params : TRUE, track_id)
    IN IF found = None THEN [opts |-> {}, warned |-> {}]
       ELSE LET track_params == CHOOSE x \in found : TRUE
                track_type == tracks[track_id + 1].track_type
                blocks ==
                  { FlagBlock("default-track", track_params.default, TRUE),
                    FlagBlock("track-enabled", track_params.enabled, TRUE),
                    FlagBlock("forced-display", track_params.forced,
                              track_type = "Subtitle"),
                    FlagBlock("hearing-impaired", track_params.hearing_impaired,
                              track_type = "Audio"),
                    FlagBlock("visual-impaired", track_params.hearing_impaired,
                              track_type = "Audio"),
                    FlagBlock("text-descriptions", track_params.text_descriptions,
                              track_type = "Subtitle"),
                    FlagBlock("original", track_params.original, TRUE),
                    FlagBlock("commentary", track_params.commentary,
                              track_type \in {"Audio", "Subtitle"}) }
            IN [opts |-> UNION { b.opts : b \in blocks },
                warned |-> UNION { b.warned : b \in blocks }]

\* The soft failures of remux_file's argument building: the flags warned
\* about over all tracks and the selected internal attachments whose
\* extracted file is not among `present`.
RemuxWarnings(m, p, present) ==
    (IF \E j \in 1..Len(m.tracks) :
            ApplyAdditionalTrackMuxParams(m.tracks, j - 1, p.track_params).warned # {}
     THEN {"flag_mismatch"} ELSE {})
    \cup
    (IF /\ p.attachments.import_from_original
        /\ \E j \in 1..Len(m.attachments) :
              AddAttachmentIfMatching(m.attachments[j], None, j \in present).warned
     THEN {"attachment_missing"} ELSE {})

(***************************************************************************)
(* The control flow of MediaFile::process between its stages.              *)
(***************************************************************************)
Stages == <<"filter", "extract", "convert", "pre_mux", "remux", "post_mux", "cleanup">>

\* process with the pre-mux commands run after the remux.
ProcessNext_HooksSwapped(stage, result) ==
    CASE stage = "filter" -> IF result = "ok" THEN "extract" ELSE "return_false"
      [] stage = "extract" ->
            IF result = "ok" THEN "convert"
            ELSE IF result = "panic" THEN "panicked" ELSE "return_false"
      [] stage = "convert" ->
            IF result = "ok" THEN "remux"
            ELSE IF result = "panic" THEN "panicked" ELSE "return_false"
      [] stage = "remux" ->
            IF result = "ok" THEN "pre_mux"
            ELSE IF result = "panic" THEN "panicked" ELSE "cleanup"
      [] stage = "pre_mux" -> "post_mux"
      [] stage = "post_mux" -> "cleanup"
      [] stage = "cleanup" -> "return_true"

\* process going on to extraction whatever filter_tracks returned.
ProcessNext_IgnoreFilter(stage, result) ==
    CASE stage = "filter" -> "extract"
      [] stage = "extract" ->
            IF result = "ok" THEN "convert"
            ELSE IF result = "panic" THEN "panicked" ELSE "return_false"
      [] stage = "convert" ->
            IF result = "ok" THEN "pre_mux"
            ELSE IF result = "panic" THEN "panicked" ELSE "return_false"
      [] stage = "pre_mux" -> "remux"
      [] stage = "remux" ->
            IF result = "ok" THEN "post_mux"
            ELSE IF result = "panic" THEN "panicked" ELSE "cleanup"
      [] stage = "post_mux" -> "cleanup"
      [] stage = "cleanup" -> "return_true"

\* process going on to the pre-mux commands after a failed conversion.
ProcessNext_IgnoreConvert(stage, result) ==
    CASE stage = "filter" -> IF result = "ok" THEN "extract" ELSE "return_false"
      [] stage = "extract" ->
            IF result = "ok" THEN "convert"
            ELSE IF result = "panic" THEN "panicked" ELSE "return_false"
      [] stage = "convert" ->
            IF result = "panic" THEN "panicked" ELSE "pre_mux"
      [] stage = "pre_mux" -> "remux"
      [] stage = "remux" ->
            IF result = "ok" THEN "post_mux"
            ELSE IF result = "panic" THEN "panicked" ELSE "cleanup"
      [] stage = "post_mux" -> "cleanup"
      [] stage = "cleanup" -> "return_true"

\* process giving up on a file when a hook command could not be launched
\* or the temporary files could not be removed.
ProcessNext_SoftFailureAborts(stage, result) ==
    CASE stage = "filter" -> IF result = "ok" THEN "extract" ELSE "return_false"
      [] stage = "extract" ->
            IF result = "ok" THEN "convert"
            ELSE IF result = "panic" THEN "panicked" ELSE "return_false"
      [] stage = "convert" ->
            IF result = "ok" THEN "pre_mux"
            ELSE IF result = "panic" THEN "panicked" ELSE "return_false"
      [] stage = "pre_mux" -> IF result = "ok" THEN "remux" ELSE "return_false"
      [] stage = "remux" ->
            IF result = "ok" THEN "post_mux"
            ELSE IF result = "panic" THEN "panicked" ELSE "cleanup"
      [] stage = "post_mux" -> IF result = "ok" THEN "cleanup" ELSE "return_false"
      [] stage = "cleanup" -> IF result = "ok" THEN "return_true" ELSE "return_false"

\* Where process goes after a stage that ended with `result`:
\* the next stage, a return (true / false), or a panic of the program.
ProcessNext(stage, result) ==
    CASE stage = "filter" -> IF result = "ok" THEN "extract" ELSE "return_false"
      [] stage = "extract" ->
            IF result = "ok" THEN "convert"
            ELSE IF result = "panic" THEN "panicked" ELSE "return_false"
      [] stage = "convert" ->
            IF result = "ok" THEN "pre_mux"
            ELSE IF result = "panic" THEN "panicked" ELSE "return_false"
      [] stage = "pre_mux" -> "remux"
      [] stage = "remux" ->
            IF result = "ok" THEN "post_mux"
            ELSE IF result = "panic" THEN "panicked" ELSE "cleanup"
      [] stage = "post_mux" -> "cleanup"
      [] stage = "cleanup" -> "return_true"

\* The batch loop without its break.
LoopAfter_NoBreak(returned) == "continue"

\* FileProcessor::process, the loop body after m.process returned.
LoopAfter(returned) == IF returned THEN "continue" ELSE "break"

(***************************************************************************)
(* The batch (Spec).                                                       *)
(***************************************************************************)
\* Position-tagged paths and titles: the k-th natural-sorted input file,
\* the k-th output path and the k-th title of the name list.
InPath(n) == <<"in", n>>
OutPath(n) == <<"out", n>>
Title(n) == <<"title", n>>
Position(x) == x[2]

\* What from_path can deserialize for an input file: a track list and the
\* attachment names of its general track.
BatchFiles ==
    { [tracks |-> ExampleTracks, attachments |-> << <<"font", "ttf">> >>],
      [tracks |-> <<GeneralTrack, MkTrack("Video", 0, "und", "H264"),
                    MkTrack("Audio", 1, "en", "Aac")>>,
       attachments |-> <<>>] }

HookCommands ==
    << [type |-> "PreMux", exists |-> TRUE], [type |-> "PostMux", exists |-> TRUE] >>

\* Track parameters of the batch: track 0 forced and track 1 hearing
\* impaired.  After the example's filter pass track 0 is the video track,
\* which supports neither flag.
BatchTrackParams ==
    Some(<< [NoTrackParams(0) EXCEPT !.forced = Some(TRUE),
                                     !.default = Some(TRUE)],
            [NoTrackParams(1) EXCEPT !.hearing_impaired = Some(TRUE)] >>)

\* The batch policies: the policy of the end-to-end example, with and
\* without audio conversion, hook commands and removal of the original.
BatchParams ==
    { [ MkParams([CategoryPolicy(PredLanguages({"ja"}), Some(1))
                    EXCEPT !.conversion = conv],
                 CategoryPolicy(PredLanguages({"en"}), Some(1)),
                 CategoryPolicy(PredNone, None),
                 FALSE,
                 [remove_original_file |-> del, remove_temp_files |-> del,
                  shutdown_upon_completion |-> Some(TRUE), run |-> run])
        EXCEPT !.attachments.import_from_original = TRUE,
               !.chapters.import_from_original = TRUE,
               !.track_params = IF run = <<>> THEN None ELSE BatchTrackParams ] :
        conv \in {None, Some([codec |-> Some("Opus")])},
        del \in {None, Some("Delete"), Some("Trash")},
        run \in {<<>>, HookCommands} }
    \cup
    { MkParams(CategoryPolicy(PredNone, None),
               [CategoryPolicy(PredNone, None) EXCEPT !.conversion = sc],
               [CategoryPolicy(PredNone, None) EXCEPT !.conversion = vc],
               FALSE,
               [MiscDefault EXCEPT !.shutdown_upon_completion = sh]) :
        <<sc, vc, sh>> \in { <<None, None, None>>,
                             <<Some([codec |-> Some("Srt")]), None, Some(FALSE)>>,
                             <<None, Some([codec |-> Some("Hevc")]), None>> } }

\* FileProcessor::new only returns a processor whose three lists have the
\* same, non-zero length; the input list is natural-sorted.
Init ==
    /\ \E n \in 1..MaxFiles :
        /\ input_paths = [j \in 1..n |-> InPath(j)]
        /\ output_paths = [j \in 1..n |-> OutPath(j)]
        /\ titles = [j \in 1..n |-> Title(j)]
    /\ params \in BatchParams
    /\ UNIQUE_ID = 0
    /\ media = <<>>
    /\ pc = "setup"
    /\ k = 1
    /\ i = 1
    /\ success = TRUE
    /\ log = <<>>
    /\ warnings = {}
    /\ shutdowns = <<>>
    /\ FilterIdle
    /\ TitleIdle
    /\ MatcherIdle
    /\ CreateIdle
    /\ ConvertIdle
    /\ MuxIdle
    /\ AttachIdle

Entry(stage, result, launched) ==
    [i |-> i, file |-> media[i].file_path, out |-> output_paths[i],
     title |-> titles[i], stage |-> stage, result |-> result, launched |-> launched]

\* One step of the setup filter_map: MediaFile::from_path on input k.  It
\* yields None when the file is gone, MediaInfo cannot be launched or its
\* output cannot be deserialized; such inputs are dropped from `media`.
FromPath ==
    /\ pc = "setup"
    /\ k <= Len(input_paths)
    /\ \E outcome \in {"ok", "missing", "launch_err", "bad_json"} :
        IF outcome = "ok"
        THEN \E f \in BatchFiles :
                /\ media' = Append(media,
                        [id |-> UNIQUE_ID, file_path |-> input_paths[k],
                         output_path |-> <<>>, tracks |-> f.tracks,
                         attachments |-> f.attachments,
                         track_type_counter |-> EmptyCounter])
                /\ UNIQUE_ID' = UNIQUE_ID + 1
        ELSE UNCHANGED <<media, UNIQUE_ID>>
    /\ k' = k + 1
    /\ UNCHANGED <<input_paths, output_paths, titles, params, pc, i, success, log,
                   warnings, shutdowns>>
    /\ UNCHANGED <<filter_vars, title_vars, matcher_vars>>
    /\ UNCHANGED <<create_vars, convert_vars, mux_vars, attach_vars>>

\* The filter_map is exhausted: the processing loop starts.
SetupDone ==
    /\ pc = "setup"
    /\ k > Len(input_paths)
    /\ pc' = "loop"
    /\ UNCHANGED <<input_paths, output_paths, titles, params, UNIQUE_ID, media,
                   k, i, success, log, warnings, shutdowns>>
    /\ UNCHANGED <<filter_vars, title_vars, matcher_vars>>
    /\ UNCHANGED <<create_vars, convert_vars, mux_vars, attach_vars>>

\* The loop calls m.process(&output_paths[i], &titles[i], params) on the
\* i-th element of media; process sets output_path, backfills languages
\* and filters the tracks (lines 783-800).
Filter ==
    /\ pc = "loop"
    /\ i <= Len(media)
    /\ LET m == media[i]
           r == FilterTracks(ApplyTrackLanguageDefaults(m.tracks, params),
                             m.track_type_counter, params)
           res == IF r.success THEN "ok" ELSE "fail"
       IN /\ media' = [media EXCEPT ![i] =
                        [m EXCEPT !.output_path = output_paths[i],
                                  !.tracks = r.tracks,
                                  !.track_type_counter = r.counter]]
          /\ log' = Append(log, Entry("filter", res, FALSE))
          /\ pc' = ProcessNext("filter", res)
    /\ warnings' = {}
    /\ UNCHANGED shutdowns
    /\ UNCHANGED <<input_paths, output_paths, titles, params, UNIQUE_ID, k, i, success>>
    /\ UNCHANGED <<filter_vars, title_vars, matcher_vars>>
    /\ UNCHANGED <<create_vars, convert_vars, mux_vars, attach_vars>>

\* process, lines 802-809: extract the tracks, attachments and chapters.
ExtractStage ==
    /\ pc = "extract"
    /\ \E ot \in AdapterOutcomes, oa \in AdapterOutcomes, oc \in AdapterOutcomes :
        LET r == Extract(media[i], params.attachments.import_from_original,
                         params.chapters.import_from_original, ot, oa, oc)
        IN /\ media' = [media EXCEPT ![i].attachments = r.attachments]
           /\ log' = Append(log, Entry("extract", r.result, r.launched))
           /\ pc' = ProcessNext("extract", r.result)
    /\ UNCHANGED warnings
    /\ UNCHANGED shutdowns
    /\ UNCHANGED <<input_paths, output_paths, titles, params, UNIQUE_ID, k, i, success>>
    /\ UNCHANGED <<filter_vars, title_vars, matcher_vars>>
    /\ UNCHANGED <<create_vars, convert_vars, mux_vars, attach_vars>>

\* process going on to the pre-mux commands past the subtitle and video
\* conversion parameters.
ConversionTodo_Never(p) == FALSE

\* process, lines 820-828: configured subtitle or video conversion
\* parameters hit todo!().
ConversionTodo(p) ==
    p.subtitle_tracks.conversion # None \/ p.video_tracks.conversion # None

\* process, lines 813-828: audio conversion when a codec is configured,
\* then the subtitle and video conversion placeholders.
ConvertStage ==
    /\ pc = "convert"
    /\ LET ac == params.audio_tracks.conversion
           wanted == \E c \in ac : c.codec # None
       IN \E outs \in [AudioIndices(media[i].tracks) -> {"ok", "fail", "panic"}] :
            LET r == IF wanted
                     THEN ConvertAllAudio(media[i].tracks,
                            CHOOSE c \in UNION { x.codec : x \in ac } : TRUE, outs)
                     ELSE [result |-> "ok", launched |-> FALSE,
                           tracks |-> media[i].tracks]
                todo == r.result = "ok" /\ ConversionTodo(params)
                res == IF todo THEN "panic" ELSE r.result
            IN /\ media' = [media EXCEPT ![i].tracks = r.tracks]
               /\ log' = Append(log, Entry("convert", res, r.launched))
               /\ pc' = ProcessNext("convert", res)
    /\ UNCHANGED warnings
    /\ UNCHANGED shutdowns
    /\ UNCHANGED <<input_paths, output_paths, titles, params, UNIQUE_ID, k, i, success>>
    /\ UNCHANGED <<filter_vars, title_vars, matcher_vars>>
    /\ UNCHANGED <<create_vars, convert_vars, mux_vars, attach_vars>>

\* process, line 833: run_commands(PreMux).  A command that fails to
\* launch is only logged; run_commands returns nothing, so the entry only
\* records that the stage ran.
PreMuxStage ==
    /\ pc = "pre_mux"
    /\ \E failed \in SUBSET (1..HookLaunches(params.misc.run, "PreMux")) :
        /\ warnings' = warnings \cup
                (IF failed # {} THEN {"pre_mux_launch_failed"} ELSE {})
        /\ pc' = ProcessNext("pre_mux", IF failed = {} THEN "ok" ELSE "fail")
    /\ log' = Append(log, Entry("pre_mux", "ok",
                                HookLaunches(params.misc.run, "PreMux") > 0))
    /\ UNCHANGED <<input_paths, output_paths, titles, params, UNIQUE_ID, media,
                   k, i, success, shutdowns>>
    /\ UNCHANGED <<filter_vars, title_vars, matcher_vars>>
    /\ UNCHANGED <<create_vars, convert_vars, mux_vars, attach_vars>>

\* process, line 838: remux_file(out_path, title, params) runs mkvmerge.
RemuxStage ==
    /\ pc = "remux"
    /\ \E o \in AdapterOutcomes :
        /\ log' = Append(log, Entry("remux", MkvOutcome(o), TRUE))
        /\ pc' = ProcessNext("remux", MkvOutcome(o))
    /\ \E present \in SUBSET (1..Len(media[i].attachments)) :
        warnings' = warnings \cup RemuxWarnings(media[i], params, present)
    /\ UNCHANGED <<input_paths, output_paths, titles, params, UNIQUE_ID, media,
                   k, i, success, shutdowns>>
    /\ UNCHANGED <<filter_vars, title_vars, matcher_vars>>
    /\ UNCHANGED <<create_vars, convert_vars, mux_vars, attach_vars>>

\* process, line 842: run_commands(PostMux), inside `if self.remux_file(..)`.
PostMuxStage ==
    /\ pc = "post_mux"
    /\ \E failed \in SUBSET (1..HookLaunches(params.misc.run, "PostMux")) :
        /\ warnings' = warnings \cup
                (IF failed # {} THEN {"post_mux_launch_failed"} ELSE {})
        /\ pc' = ProcessNext("post_mux", IF failed = {} THEN "ok" ELSE "fail")
    /\ log' = Append(log, Entry("post_mux", "ok",
                                HookLaunches(params.misc.run, "PostMux") > 0))
    /\ UNCHANGED <<input_paths, output_paths, titles, params, UNIQUE_ID, media,
                   k, i, success, shutdowns>>
    /\ UNCHANGED <<filter_vars, title_vars, matcher_vars>>
    /\ UNCHANGED <<create_vars, convert_vars, mux_vars, attach_vars>>

\* process, lines 847-868: the temporary files are deleted or trashed as
\* configured (a failure is only logged), then process returns true.
CleanupStage ==
    /\ pc = "cleanup"
    /\ \E removed \in (IF params.misc.remove_temp_files = None
                        THEN {TRUE} ELSE BOOLEAN) :
        /\ warnings' = warnings \cup
                (IF removed THEN {} ELSE {"temp_files_not_removed"})
        /\ pc' = ProcessNext("cleanup", IF removed THEN "ok" ELSE "fail")
    /\ log' = Append(log, Entry("cleanup", "ok", FALSE))
    /\ UNCHANGED <<input_paths, output_paths, titles, params, UNIQUE_ID, media,
                   k, i, success, shutdowns>>
    /\ UNCHANGED <<filter_vars, title_vars, matcher_vars>>
    /\ UNCHANGED <<create_vars, convert_vars, mux_vars, attach_vars>>

\* FileProcessor::process, lines 429-437: process returned true;
\* maybe_delete_original_file(&self.input_paths[i], params).  The entry
\* names the path handed to the deletion and whether it was removed.
ProcessSucceeded ==
    /\ pc = "return_true"
    /\ IF params.misc.remove_original_file \in {Some("Delete"), Some("Trash")}
       THEN \E removed \in {"ok", "fail"} :
               log' = Append(log, [Entry("delete_original", removed, FALSE)
                                     EXCEPT !.file = input_paths[i]])
       ELSE log' = log
    /\ IF LoopAfter(TRUE) = "continue"
       THEN pc' = "loop" /\ i' = i + 1
       ELSE pc' = "shutdown" /\ i' = i
    /\ UNCHANGED <<input_paths, output_paths, titles, params, UNIQUE_ID, media,
                   k, success, warnings, shutdowns>>
    /\ UNCHANGED <<filter_vars, title_vars, matcher_vars>>
    /\ UNCHANGED <<create_vars, convert_vars, mux_vars, attach_vars>>

\* FileProcessor::process, lines 423-427: process returned false.
ProcessFailed ==
    /\ pc = "return_false"
    /\ success' = FALSE
    /\ log' = Append(log, Entry("failed", "fail", FALSE))
    /\ IF LoopAfter(FALSE) = "continue"
       THEN pc' = "loop" /\ i' = i + 1
       ELSE pc' = "shutdown" /\ i' = i
    /\ UNCHANGED <<input_paths, output_paths, titles, params, UNIQUE_ID, media, k,
                   warnings, shutdowns>>
    /\ UNCHANGED <<filter_vars, title_vars, matcher_vars>>
    /\ UNCHANGED <<create_vars, convert_vars, mux_vars, attach_vars>>

\* The loop is exhausted.
LoopDone ==
    /\ pc = "loop"
    /\ i > Len(media)
    /\ pc' = "shutdown"
    /\ UNCHANGED <<input_paths, output_paths, titles, params, UNIQUE_ID, media,
                   k, i, success, log, warnings, shutdowns>>
    /\ UNCHANGED <<filter_vars, title_vars, matcher_vars>>
    /\ UNCHANGED <<create_vars, convert_vars, mux_vars, attach_vars>>

\* maybe_shutdown never calling system_shutdown::shutdown.
ShutdownWanted_Never(p) == FALSE

\* maybe_shutdown, lines 339-340: shutdown_upon_completion is Some(true).
ShutdownWanted(p) == p.misc.shutdown_upon_completion = Some(TRUE)

\* FileProcessor::process, line 450: maybe_shutdown(params).  When wanted,
\* system_shutdown::shutdown() is called once; its result is only logged.
Shutdown ==
    /\ pc = "shutdown"
    /\ IF ShutdownWanted(params)
       THEN \E outcome \in {"ok", "fail"} :
               shutdowns' = Append(shutdowns, [after |-> Len(log), result |-> outcome])
       ELSE shutdowns' = shutdowns
    /\ pc' = "done"
    /\ UNCHANGED <<input_paths, output_paths, titles, params, UNIQUE_ID, media,
                   k, i, success, log, warnings>>
    /\ UNCHANGED <<filter_vars, title_vars, matcher_vars>>
    /\ UNCHANGED <<create_vars, convert_vars, mux_vars, attach_vars>>

Next ==
    \/ FromPath \/ SetupDone \/ Filter \/ ExtractStage \/ ConvertStage
    \/ PreMuxStage \/ RemuxStage \/ PostMuxStage \/ CleanupStage
    \/ ProcessSucceeded \/ ProcessFailed \/ LoopDone \/ Shutdown

Spec == Init /\ [][Next]_vars

(***************************************************************************)
(* Properties of the batch.                                                *)
(***************************************************************************)
LogIdx == 1..Len(log)

StageNames == { Stages[n] : n \in 1..Len(Stages) }

Rank(stage) == CHOOSE n \in 1..Len(Stages) : Stages[n] = stage

\* The entries of the pipeline stages of loop iteration j, in log order.
StagesOf(j) ==
    LET e == SelectSeq(log, LAMBDA x : x.i = j /\ x.stage \in StageNames)
    IN [n \in 1..Len(e) |-> e[n].stage]

\* C1: for every file the batch processes, the input path its pipeline
\* works on, the output path and the title handed to the pipeline and the
\* path handed to the deletion of the original all come from the same
\* position of the matched lists, whichever inputs from_path dropped.
C1_SamePosition ==
    /\ \A n \in LogIdx :
        /\ Position(log[n].file) = Position(log[n].out)
        /\ Position(log[n].file) = Position(log[n].title)
    /\ \A n \in LogIdx, m \in LogIdx :
        log[n].i = log[m].i => log[n].file = log[m].file

\* C2: when mkvmerge reports a hard failure while remuxing a file,
\* MediaFile::process does not return true for that file.
C2_RemuxFailureFailsFile ==
    pc = "return_true" =>
        ~ \E n \in LogIdx :
            log[n].i = i /\ log[n].stage = "remux" /\ log[n].result = "fail"

\* C3: an original input file is removed only if the remux of that same
\* file has run and succeeded.
C3_DeleteOnlyAfterRemux ==
    \A n \in LogIdx :
        (log[n].stage = "delete_original" /\ log[n].result = "ok") =>
            \E m \in 1..(n - 1) :
                /\ log[m].stage = "remux"
                /\ log[m].result = "ok"
                /\ log[m].file = log[n].file

\* C4: the batch halts on the first per-file failure: once process has
\* returned false for a file, no stage of any file runs any more, the loop
\* is left and the batch is marked as failed.
C4_HaltOnFirstFailure ==
    /\ pc = "return_false" => \A n \in LogIdx : log[n].i <= i
    /\ \A n \in LogIdx :
        log[n].stage = "failed" =>
            /\ n = Len(log)
            /\ pc \in {"shutdown", "done"}
            /\ ~success

\* C4 witness: the batch is over, a file failed and a file after it was
\* waiting in the media list.
C4_Witness ==
    /\ pc = "done"
    /\ \E n \in LogIdx : log[n].stage = "failed" /\ log[n].i < Len(media)

\* C5 as stated: a file whose pipeline came through with a successful
\* remux has run the nine stages filter, extract, pre-convert hooks,
\* convert, post-convert hooks, pre-mux hooks, remux, post-mux hooks,
\* cleanup in this order.
C5_NineStages ==
    (pc = "return_true" /\ \E n \in LogIdx :
        log[n].i = i /\ log[n].stage = "remux" /\ log[n].result = "ok")
    => StagesOf(i) = <<"filter", "extract", "pre_convert", "convert", "post_convert",
                       "pre_mux", "remux", "post_mux", "cleanup">>

\* C5 amended: the stages that run for one file run strictly in the order
\* filter, extract, convert, pre-mux hooks, remux, post-mux hooks, cleanup,
\* one at a time; hook commands exist for the pre-mux and the post-mux
\* stage only; a pipeline that came through with a successful remux has
\* run exactly these seven stages.
C5_SevenStagesInOrder ==
    /\ \A n \in LogIdx : log[n].stage \in StageNames \cup {"failed", "delete_original"}
    /\ \A n \in LogIdx, m \in LogIdx :
        (n < m /\ log[n].i = log[m].i
            /\ log[n].stage \in StageNames /\ log[m].stage \in StageNames)
        => Rank(log[n].stage) < Rank(log[m].stage)
    /\ \A n \in LogIdx, m \in LogIdx :
        (n < m /\ log[n].i = log[m].i /\ log[n].stage \in {"failed", "delete_original"})
        => log[m].stage \notin StageNames
    /\ \A n \in LogIdx :
        log[n].launched /\ log[n].stage \in {"pre_mux", "post_mux"} =>
            \E c \in 1..Len(params.misc.run) :
                params.misc.run[c].type =
                    (IF log[n].stage = "pre_mux" THEN "PreMux" ELSE "PostMux")
    /\ (pc = "return_true" /\ \E n \in LogIdx :
            log[n].i = i /\ log[n].stage = "remux" /\ log[n].result = "ok")
        => StagesOf(i) = Stages

\* C5 witness: a pipeline has come through all seven stages, with the
\* encoder and both kinds of hook command launched.
C5_Witness ==
    /\ pc = "return_true"
    /\ StagesOf(i) = Stages
    /\ \A st \in {"convert", "pre_mux", "post_mux"} :
        \E n \in LogIdx : log[n].i = i /\ log[n].stage = st /\ log[n].launched

\* Number of tracks of a category in a track list.
CountOf(tracks, track_type) ==
    Cardinality({ j \in 1..Len(tracks) : tracks[j].track_type = track_type })

\* A configured quota that the track list does not meet exactly.
QuotaMismatch(tracks, p) ==
    \E cat \in {"Audio", "Subtitle", "Video"} :
        \E n \in CategoryParams(p, cat).total_to_retain : CountOf(tracks, cat) # n

\* Loop iteration j has been through the filter.
Filtered(j) == \E n \in LogIdx : log[n].i = j /\ log[n].stage = "filter"

\* C7: when a quota is configured for a category and the number of tracks
\* kept for it differs from the quota, the file is rejected: the filter
\* reports failure, process returns false and no extraction, conversion,
\* hook or remux is run for the file.
C7_QuotaMismatchRejects ==
    \A j \in 1..Len(media) :
        (Filtered(j) /\ QuotaMismatch(media[j].tracks, params)) =>
            /\ \A n \in LogIdx :
                log[n].i = j => log[n].stage \in {"filter", "failed"}
            /\ \A n \in LogIdx :
                (log[n].i = j /\ log[n].stage = "filter") => log[n].result = "fail"
            /\ i = j
            /\ pc \in {"return_false", "shutdown", "done"}
            /\ pc # "return_false" => ~success

\* C7 witness: the batch is over after a file with fewer kept audio
\* tracks than the audio quota was rejected.
C7_Witness ==
    /\ pc = "done"
    /\ \E j \in 1..Len(media) :
        /\ Filtered(j)
        /\ \E n \in params.audio_tracks.total_to_retain :
            CountOf(media[j].tracks, "Audio") < n

\* C10 as stated: after an audio conversion failure of a file the batch
\* goes on: when the batch is over, the file after it has been processed.
C10_BatchContinues ==
    pc = "done" =>
        \A n \in LogIdx :
            (log[n].stage = "convert" /\ log[n].result = "fail"
                /\ log[n].i < Len(media))
            => \E m \in LogIdx : log[m].i = log[n].i + 1

\* C10 amended: an audio conversion failure aborts all remaining stages of
\* that file (no hooks, no remux, no cleanup, no removal of the original)
\* and halts the batch: no file after it is processed.
C10_ConvertFailureHalts ==
    \A n \in LogIdx :
        (log[n].stage = "convert" /\ log[n].result \in {"fail", "panic"}) =>
            /\ \A m \in LogIdx :
                m > n => (m = n + 1 /\ log[m].stage = "failed" /\ log[m].i = log[n].i)
            /\ log[n].result = "fail" /\ n = Len(log) => pc = "return_false"
            /\ log[n].result = "fail" /\ n < Len(log) => pc \in {"shutdown", "done"}
            /\ log[n].result = "panic" => (pc = "panicked" /\ n = Len(log))

\* C10 witness: the batch is over after the encoder failed on a file that
\* was not the last one.
C10_Witness ==
    /\ pc = "done"
    /\ \E n \in LogIdx :
        /\ log[n].stage = "convert" /\ log[n].result = "fail" /\ log[n].launched
        /\ log[n].i < Len(media)

(***************************************************************************)
(* Properties of the filter pass.                                          *)
(***************************************************************************)
Categories == {"Audio", "Subtitle", "Video"}

\* The tracks of a category in a list, in list order.
TracksOf(tracks, cat) == SelectSeq(tracks, LAMBDA t : t.track_type = cat)

\* The tracks of a category in the input list that match the category's
\* predicate, in original order.
RECURSIVE MatchingFrom(_, _, _, _)
MatchingFrom(tracks, cat, predicate, index) ==
    IF index >= Len(tracks) THEN <<>>
    ELSE (IF /\ tracks[index + 1].track_type = cat
             /\ PredicateMatches(predicate, tracks, index)
          THEN <<tracks[index + 1]>> ELSE <<>>)
         \o MatchingFrom(tracks, cat, predicate, index + 1)

Matching(tracks, cat, p) ==
    MatchingFrom(tracks, cat, CategoryParams(p, cat).predicate, 0)

\* C6: with a quota N >= 1 for a category and more than N tracks of the
\* category matching its predicate, filter_tracks keeps exactly the first
\* N matching tracks of the category, in original order, and the
\* category's counter equals the quota (no mismatch for that category).
C6_FirstNKept ==
    f_pc \in {"filtered", "muxed"} =>
        \A cat \in Categories :
            \A n \in CategoryParams(f_params, cat).total_to_retain :
                (n >= 1 /\ Len(Matching(f_input, cat, f_params)) > n) =>
                    /\ TracksOf(f_kept, cat) = SubSeq(Matching(f_input, cat, f_params), 1, n)
                    /\ TracksOf(f_tracks, cat) = TracksOf(f_kept, cat)
                    /\ CounterGetOrDefault(f_counter, cat) = n

\* C6 witness: the pass is over for an input with three tracks of a
\* category whose quota is one, two of them matching its language
\* predicate, and one track of the category was kept.
C6_Witness ==
    /\ f_pc = "filtered"
    /\ \E cat \in Categories :
        /\ CategoryParams(f_params, cat).total_to_retain = Some(1)
        /\ CategoryParams(f_params, cat).predicate.kind = "Languages"
        /\ Len(Matching(f_input, cat, f_params)) = 2
        /\ Len(TracksOf(f_input, cat)) = 3
        /\ Len(TracksOf(f_kept, cat)) = 1

\* C8: at every point of the filter pass, for each category with a
\* configured quota Q (Q = 0 included), at most Q tracks of the category
\* have been kept.
C8_KeptAtMostQuota ==
    \A cat \in Categories :
        \A q \in CategoryParams(f_params, cat).total_to_retain :
            CountOf(f_kept, cat) <= q

\* The policy of the end-to-end example: audio Language([ja]) with quota
\* 1, subtitle Language([en]) with quota 1, video without predicate.
IsExampleParams(p) ==
    /\ p.audio_tracks = CategoryPolicy(PredLanguages({"ja"}), Some(1))
    /\ p.subtitle_tracks = CategoryPolicy(PredLanguages({"en"}), Some(1))
    /\ p.video_tracks = CategoryPolicy(PredNone, None)

\* C9: for the tracks [general, video, audio(ja), audio(en), subtitle(en)]
\* and the example policy, the kept list is [video, audio(ja),
\* subtitle(en)], filtering succeeds, and the mux arguments carry language
\* und for the video track and ja for the audio track.
C9_EndToEnd ==
    (f_input = ExampleTracks /\ IsExampleParams(f_params)) =>
        /\ f_pc \in {"filtered", "muxed"} =>
            /\ f_tracks = <<ExampleTracks[2], ExampleTracks[3], ExampleTracks[5]>>
            /\ f_success
        /\ f_pc = "filtered" => ENABLED FilterMux
        /\ f_pc = "muxed" =>
            /\ Len(f_args) = 3
            /\ f_args[1].language = "und"
            /\ f_args[2].language = "ja"
            /\ f_args[3].language = "en"
            /\ \A j \in 1..3 : f_args[j].file = OutFileName(f_tracks[j])

\* C9 witness: the example has been filtered and its mux arguments built.
C9_Witness ==
    /\ f_pc = "muxed"
    /\ f_input = ExampleTracks
    /\ IsExampleParams(f_params)
    /\ Len(f_args) = 3

(***************************************************************************)
(* Title predicates (TrackTitlePredicate) and the profile's filter         *)
(* initialization (InputProfile::initialize_filters): SpecTitle.           *)
(* Strings are sequences of one-character strings.                         *)
(***************************************************************************)
MaxFilters == 2
MaxTitleLen == 2

\* str::contains: s occurs in needle as a contiguous run.
StrContains(needle, s) ==
    \E pos \in 0..(Len(needle) - Len(s)) :
        SubSeq(needle, pos + 1, pos + Len(s)) = s

\* Regex::new accepts a pattern or reports a syntax error; of the patterns
\* of the model, the ones with an unclosed group are malformed.
RegexIsValid(s) ==
    Cardinality({ j \in 1..Len(s) : s[j] = "(" })
        = Cardinality({ j \in 1..Len(s) : s[j] = ")" })

\* Ok(re) is Some(re), Err(..) is None.
RegexNew(s) == IF RegexIsValid(s) THEN Some(s) ELSE None

\* Regex::is_match for the patterns [^]literal[$]: an unanchored search.
RegexIsMatch(re, needle) ==
    LET from == IF Len(re) > 0 /\ re[1] = "^" THEN 2 ELSE 1
        to == IF Len(re) >= from /\ re[Len(re)] = "$" THEN Len(re) - 1 ELSE Len(re)
        literal == SubSeq(re, from, to)
    IN \E pos \in 0..(Len(needle) - Len(literal)) :
        /\ SubSeq(needle, pos + 1, pos + Len(literal)) = literal
        /\ from = 2 => pos = 0
        /\ to < Len(re) => pos + Len(literal) = Len(needle)

\* TrackTitlePredicateType
Contains(s) == [type |-> "Contains", s |-> s]
Equals(s) == [type |-> "Equals", s |-> s]
Regex(s) == [type |-> "Regex", s |-> s]

\* TrackPredicate::Title(TrackTitlePredicate) as deserialized: regex_filters
\* is #[serde(skip)], hence empty.
PredTitle(filter_condition, filters) ==
    [kind |-> "Title", filter_condition |-> filter_condition, filters |-> filters,
     regex_filters |-> <<>>]

\* TrackTitlePredicate::initialize_regex from sub-rule n on: the value
\* returned and the predicate as the call leaves it.
RECURSIVE InitializeRegexFrom(_, _)
InitializeRegexFrom(t, n) ==
    IF n > Len(t.filters) THEN [ok |-> TRUE, predicate |-> t]
    ELSE IF t.filters[n].type # "Regex" THEN InitializeRegexFrom(t, n + 1)
    ELSE IF RegexNew(t.filters[n].s) = None THEN [ok |-> FALSE, predicate |-> t]
    ELSE InitializeRegexFrom(
            [t EXCEPT !.regex_filters = Append(@, t.filters[n].s)], n + 1)

\* TrackPredicate::initialize_regex
InitializeRegex(predicate) ==
    IF predicate.kind = "Title" THEN InitializeRegexFrom(predicate, 1)
    ELSE [ok |-> TRUE, predicate |-> predicate]

\* InputProfile::initialize_filters: subtitle_tracks, subtitle_tracks again
\* and video_tracks, joined by short-circuit &&.
InitializeFilters(profile) ==
    LET s1 == InitializeRegex(profile.subtitle_tracks.predicate)
        s2 == InitializeRegex(s1.predicate)
        v == InitializeRegex(profile.video_tracks.predicate)
    IN IF ~s1.ok
       THEN [ok |-> FALSE,
             profile |-> [profile EXCEPT !.subtitle_tracks.predicate = s1.predicate]]
       ELSE IF ~s2.ok
       THEN [ok |-> FALSE,
             profile |-> [profile EXCEPT !.subtitle_tracks.predicate = s2.predicate]]
       ELSE [ok |-> v.ok,
             profile |-> [profile EXCEPT !.subtitle_tracks.predicate = s2.predicate,
                                         !.video_tracks.predicate = v.predicate]]

\* is_text_match / is_regex_match with an Or that starts from false.
OverallMatchStart_OrFalse(filter_condition) == filter_condition # "Or"

\* let mut is_overall_match = true, whatever the condition.
OverallMatchStart(filter_condition) == TRUE

\* The match on self.filter_condition in is_text_match and is_regex_match.
Combine(filter_condition, is_overall_match, is_sub_match) ==
    CASE filter_condition = "And" -> is_overall_match /\ is_sub_match
      [] filter_condition = "Or" -> is_overall_match \/ is_sub_match
      [] filter_condition = "Not" -> is_overall_match /\ ~is_sub_match

RECURSIVE TextMatchFrom(_, _, _, _)
TextMatchFrom(t, needle, n, is_overall_match) ==
    IF n > Len(t.filters) THEN is_overall_match
    ELSE LET f == t.filters[n] IN
         IF f.type = "Regex" THEN TextMatchFrom(t, needle, n + 1, is_overall_match)
         ELSE LET is_sub_match == IF f.type = "Contains"
                                  THEN StrContains(needle, f.s)
                                  ELSE f.s = needle
                  next == Combine(t.filter_condition, is_overall_match, is_sub_match)
              IN IF ~next THEN FALSE ELSE TextMatchFrom(t, needle, n + 1, next)

\* TrackTitlePredicate::is_text_match
IsTextMatch(t, needle) ==
    TextMatchFrom(t, needle, 1, OverallMatchStart(t.filter_condition))

RECURSIVE RegexMatchFrom(_, _, _, _)
RegexMatchFrom(t, needle, n, is_overall_match) ==
    IF n > Len(t.regex_filters) THEN is_overall_match
    ELSE LET is_sub_match == RegexIsMatch(t.regex_filters[n], needle)
             next == Combine(t.filter_condition, is_overall_match, is_sub_match)
         IN IF ~next THEN FALSE ELSE RegexMatchFrom(t, needle, n + 1, next)

\* TrackTitlePredicate::is_regex_match
IsRegexMatch(t, needle) ==
    RegexMatchFrom(t, needle, 1, OverallMatchStart(t.filter_condition))

\* TrackTitlePredicate::is_match
TitleIsMatch(t, needle) == IsTextMatch(t, needle) /\ IsRegexMatch(t, needle)

\* Sub-rules, sub-rule lists and titles of the model.
SubRules ==
    { Contains(<<"a">>), Equals(<<"a", "b">>), Regex(<<"^", "b">>), Regex(<<"(">>) }

FilterLists == UNION { [1..n -> SubRules] : n \in 0..MaxFilters }

Conditions == {"And", "Or", "Not"}

TitleStrings == UNION { [1..n -> {"a", "b"}] : n \in 0..MaxTitleLen }

RichTitlePredicates ==
    {PredNone} \cup { PredTitle(c, f) : c \in Conditions, f \in FilterLists }

SimpleTitlePredicates ==
    { PredNone, PredTitle("And", <<Regex(<<"^", "b">>)>>),
      PredTitle("Not", <<Regex(<<"(">>)>>) }

MkProfile(audio, subtitle, video) ==
    [audio_tracks |-> [predicate |-> audio],
     subtitle_tracks |-> [predicate |-> subtitle],
     video_tracks |-> [predicate |-> video]]

\* Profiles: one category carries any title predicate of the model, the
\* other two a simple one.
TitleProfiles ==
    { MkProfile(a, s, v) :
        a \in RichTitlePredicates, s \in SimpleTitlePredicates, v \in SimpleTitlePredicates }
    \cup
    { MkProfile(a, s, v) :
        a \in SimpleTitlePredicates, s \in RichTitlePredicates, v \in SimpleTitlePredicates }
    \cup
    { MkProfile(a, s, v) :
        a \in SimpleTitlePredicates, s \in SimpleTitlePredicates, v \in RichTitlePredicates }

TitleCategories == {"audio_tracks", "subtitle_tracks", "video_tracks"}

\* The profile as deserialized from its file.
InitTitle ==
    /\ BatchIdle
    /\ FilterIdle
    /\ MatcherIdle
    /\ CreateIdle
    /\ ConvertIdle
    /\ MuxIdle
    /\ AttachIdle
    /\ t_profile \in TitleProfiles
    /\ t_pc = "deserialized"
    /\ t_initialized = FALSE
    /\ t_needle = <<>>
    /\ t_match = FALSE

\* Startup calls initialize_filters on the profile; false ends the run.
InitializeFiltersStep ==
    /\ t_pc = "deserialized"
    /\ LET r == InitializeFilters(t_profile) IN
        /\ t_profile' = r.profile
        /\ t_initialized' = r.ok
        /\ t_pc' = IF r.ok THEN "ready" ELSE "rejected"
    /\ UNCHANGED <<t_needle, t_match>>
    /\ UNCHANGED <<batch_vars, filter_vars, matcher_vars>>
    /\ UNCHANGED <<create_vars, convert_vars, mux_vars, attach_vars>>

\* should_keep_track, line 680: the title predicate of a track's category
\* is asked about the track's title.
TitleMatchStep ==
    /\ t_pc \in {"ready", "matched"}
    /\ \E cat \in TitleCategories, title \in TitleStrings :
        /\ t_profile[cat].predicate.kind = "Title"
        /\ t_needle' = <<cat, title>>
        /\ t_match' = TitleIsMatch(t_profile[cat].predicate, title)
    /\ t_pc' = "matched"
    /\ UNCHANGED <<t_profile, t_initialized>>
    /\ UNCHANGED <<batch_vars, filter_vars, matcher_vars>>
    /\ UNCHANGED <<create_vars, convert_vars, mux_vars, attach_vars>>

NextTitle == InitializeFiltersStep \/ TitleMatchStep

SpecTitle == InitTitle /\ [][NextTitle]_vars

\* The Regex sub-rules of a title predicate, in list order.
RegexRulesOf(predicate) ==
    IF predicate.kind = "Title"
    THEN SelectSeq(predicate.filters, LAMBDA f : f.type = "Regex")
    ELSE <<>>

\* A category's title predicate holds a malformed regex sub-rule.
HasMalformedRegex(predicate) ==
    \E n \in 1..Len(RegexRulesOf(predicate)) :
        ~RegexIsValid(RegexRulesOf(predicate)[n].s)

\* C11: initialize_filters returns false whenever the title predicate of
\* audio, subtitle or video holds a malformed regex sub-rule; after it
\* returned true, every Regex sub-rule of every category has its compiled
\* regex among the regex_filters that is_match evaluates.
C11_MalformedRegexRejects ==
    t_pc \in {"ready", "rejected", "matched"} =>
        /\ (\E cat \in TitleCategories : HasMalformedRegex(t_profile[cat].predicate))
            => ~t_initialized
        /\ t_initialized =>
            \A cat \in TitleCategories :
                LET rules == RegexRulesOf(t_profile[cat].predicate) IN
                \A n \in 1..Len(rules) :
                    \E r \in 1..Len(t_profile[cat].predicate.regex_filters) :
                        t_profile[cat].predicate.regex_filters[r] = rules[n].s

\* The title predicate and the title of the last is_match.
AskedPredicate == t_profile[t_needle[1]].predicate
AskedTitle == t_needle[2]

\* Does one sub-rule, taken alone, match the title?
SubRuleMatches(f, title) ==
    CASE f.type = "Contains" -> StrContains(title, f.s)
      [] f.type = "Equals" -> f.s = title
      [] f.type = "Regex" -> RegexIsValid(f.s) /\ RegexIsMatch(f.s, title)

\* C17: a Title predicate with an empty sub-rule list returns true from
\* is_match for every title, under the And, the Or and the Not condition.
C17_EmptyTitlePredicateMatches ==
    /\ \A c \in Conditions, title \in TitleStrings :
        TitleIsMatch(PredTitle(c, <<>>), title)
    /\ (t_pc = "matched" /\ AskedPredicate.filters = <<>>) => t_match

\* C17 witness: is_match has been asked about a non-empty title under an
\* Or predicate without sub-rules in an initialized profile.
C17_Witness ==
    /\ t_pc = "matched"
    /\ t_initialized
    /\ AskedPredicate.filters = <<>>
    /\ AskedPredicate.filter_condition = "Or"
    /\ AskedTitle # <<>>
    /\ t_match

\* C18: under the Or condition with a non-empty sub-rule list, is_match
\* is true exactly when at least one sub-rule matches the title.
C18_OrMatchesIffSomeRule ==
    (/\ t_pc = "matched"
     /\ AskedPredicate.filter_condition = "Or"
     /\ AskedPredicate.filters # <<>>)
    => (t_match <=> \E n \in 1..Len(AskedPredicate.filters) :
                        SubRuleMatches(AskedPredicate.filters[n], AskedTitle))

(***************************************************************************)
(* The file matcher (FileProcessor::new): SpecMatcher.                     *)
(* Lines, titles, names and paths are sequences of one-character strings.  *)
(***************************************************************************)
MaxLines == 3
MaxDirFiles == 3

STOP_CLAUSE == <<"#", "#", "#", "S", "T", "O", "P", "#", "#", "#">>

VALID_EXTENSIONS == { <<"m", "k", "v">> }

BAD_NTFS_CHARS == {"/", "?", "<", ">", "\\", ":", "*", "|", "\""}

\* The characters of the model in code point order.
CharOrder ==
    <<" ", "#", ".", "/", "0", "1", "2", "3", "4", "5", "6", "7", "8", "9", "?",
      "A", "B", "K", "M", "O", "P", "S", "T", "V",
      "a", "b", "d", "f", "i", "k", "m", "n", "o", "t", "v", "x">>

Code(c) == CHOOSE n \in 1..Len(CharOrder) : CharOrder[n] = c

DigitChars == <<"0", "1", "2", "3", "4", "5", "6", "7", "8", "9">>

IsDigit(c) == \E d \in 1..10 : DigitChars[d] = c

DigitValue(c) == (CHOOSE d \in 1..10 : DigitChars[d] = c) - 1

\* The decimal digits of a number, as format!("{index}") writes them.
RECURSIVE Digits(_)
Digits(n) ==
    IF n < 10 THEN <<DigitChars[n + 1]>>
    ELSE Digits(n \div 10) \o <<DigitChars[(n % 10) + 1]>>

\* format!("{index:0w$}"): zero-padded to at least `width` digits.
RECURSIVE ZeroPad(_, _)
ZeroPad(digits, width) ==
    IF Len(digits) >= width THEN digits ELSE ZeroPad(<<"0">> \o digits, width)

\* The value of a run of decimal digits.
RECURSIVE Value(_)
Value(digits) ==
    IF digits = <<>> THEN 0
    ELSE 10 * Value(SubSeq(digits, 1, Len(digits) - 1)) + DigitValue(digits[Len(digits)])

\* str::trim for the one white-space character of the model.
RECURSIVE Trim(_)
Trim(s) ==
    IF s = <<>> THEN s
    ELSE IF Head(s) = " " THEN Trim(Tail(s))
    ELSE IF s[Len(s)] = " " THEN Trim(SubSeq(s, 1, Len(s) - 1))
    ELSE s

ToUppercase(c) == CASE c = "a" -> "A" [] c = "b" -> "B" [] OTHER -> c

ToLowercase(c) ==
    CASE c = "A" -> "a" [] c = "B" -> "b" [] c = "K" -> "k" [] c = "M" -> "m"
      [] c = "V" -> "v" [] OTHER -> c

\* titlecase: the first letter of every word is capitalized.
Titlecase(s) ==
    [j \in 1..Len(s) |-> IF j = 1 \/ s[j - 1] = " " THEN ToUppercase(s[j]) ELSE s[j]]

\* str::replace of every occurrence of a one-character pattern.
RECURSIVE Replace(_, _, _)
Replace(s, from, to) ==
    IF s = <<>> THEN <<>>
    ELSE (IF Head(s) = from THEN to ELSE <<Head(s)>>) \o Replace(Tail(s), from, to)

\* The loop over self.strings of Substitutions::apply.
RECURSIVE ReplaceStrings(_, _)
ReplaceStrings(s, strings) ==
    IF strings = <<>> THEN s
    ELSE ReplaceStrings(Replace(s, Head(strings)[1], Head(strings)[2]), Tail(strings))

\* Substitutions::apply for a profile without regular expressions and
\* a line without dashes.
Apply(substitutions, in_string) ==
    LET line == Trim(in_string) IN
    IF line = <<>> THEN <<>>
    ELSE LET cased == IF substitutions.convert_to_proper_title_case
                      THEN Titlecase(line) ELSE line
             replaced == ReplaceStrings(cased, substitutions.strings)
         IN IF substitutions.strip_invalid_ntfs_chars
            THEN SelectSeq(replaced, LAMBDA c : c \notin BAD_NTFS_CHARS)
            ELSE replaced

PadWidth(pad_type) ==
    CASE pad_type = "One" -> 1 [] pad_type = "Ten" -> 2
      [] pad_type = "Hundred" -> 3 [] pad_type = "Thousand" -> 4

\* FileProcessor::file_name_from_padded_index; the dash between index and
\* name is written "-".
file_name_from_padded_index(name, index, pad_type) ==
    (IF pad_type = None THEN name
     ELSE ZeroPad(Digits(index), PadWidth(CHOOSE t \in pad_type : TRUE))
          \o <<" ", "-", " ">> \o name)
    \o <<".", "m", "k", "v">>

\* utils::join_path_segments(dir, [file_name])
JoinPath(dir, file_name) == dir \o <<"/">> \o file_name

\* Path::extension: what follows the last dot of the file name.
Extension(name) ==
    LET dots == { j \in 1..Len(name) : name[j] = "." } IN
    IF dots = {} THEN <<>>
    ELSE SubSeq(name, (CHOOSE j \in dots : \A l \in dots : l <= j) + 1, Len(name))

\* FileProcessor::filter_by_file_extension over the directory's entries:
\* the paths of the files whose lower-cased extension is a valid one.
SupportedPaths(dir, entries) ==
    { JoinPath(dir, e.name) :
        e \in { x \in entries :
                  /\ x.is_file
                  /\ [j \in 1..Len(Extension(x.name)) |->
                        ToLowercase(Extension(x.name)[j])] \in VALID_EXTENSIONS } }

\* The end of the run of digits that starts at position p.
RunEnd(s, p) ==
    CHOOSE e \in p..Len(s) :
        /\ \A j \in p..e : IsDigit(s[j])
        /\ e = Len(s) \/ ~IsDigit(s[e + 1])

\* A comparison character by character, digits like any other character.
RECURSIVE BytewiseCmpFrom(_, _, _)
BytewiseCmpFrom(a, b, p) ==
    IF p > Len(a) /\ p > Len(b) THEN "Equal"
    ELSE IF p > Len(a) THEN "Less"
    ELSE IF p > Len(b) THEN "Greater"
    ELSE IF Code(a[p]) < Code(b[p]) THEN "Less"
    ELSE IF Code(a[p]) > Code(b[p]) THEN "Greater"
    ELSE BytewiseCmpFrom(a, b, p + 1)

natural_cmp_Bytewise(a, b) == BytewiseCmpFrom(a, b, 1)

\* lexical_sort::natural_cmp: character by character, except that two
\* runs of digits met at the same time are compared by their value.
RECURSIVE NaturalCmpFrom(_, _, _, _)
NaturalCmpFrom(a, b, p, q) ==
    IF p > Len(a) /\ q > Len(b) THEN "Equal"
    ELSE IF p > Len(a) THEN "Less"
    ELSE IF q > Len(b) THEN "Greater"
    ELSE IF IsDigit(a[p]) /\ IsDigit(b[q])
    THEN LET pe == RunEnd(a, p)
             qe == RunEnd(b, q)
             n1 == Value(SubSeq(a, p, pe))
             n2 == Value(SubSeq(b, q, qe))
         IN IF n1 < n2 THEN "Less"
            ELSE IF n1 > n2 THEN "Greater"
            ELSE NaturalCmpFrom(a, b, pe + 1, qe + 1)
    ELSE IF Code(a[p]) < Code(b[q]) THEN "Less"
    ELSE IF Code(a[p]) > Code(b[q]) THEN "Greater"
    ELSE NaturalCmpFrom(a, b, p + 1, q + 1)

natural_cmp(a, b) == NaturalCmpFrom(a, b, 1, 1)

\* string_sort_unstable(natural_cmp) of paths that read_dir yielded in
\* some order: the paths in ascending order of natural_cmp.
RECURSIVE StringSort(_)
StringSort(paths) ==
    IF paths = {} THEN <<>>
    ELSE LET least == CHOOSE x \in paths :
                        \A y \in paths : natural_cmp(y, x) # "Less"
         IN <<least>> \o StringSort(paths \ {least})

\* Vec::truncate without effect.
Truncate_Never(list, len) == list

\* Vec::truncate
Truncate(list, len) == IF len < Len(list) THEN SubSeq(list, 1, len) ELSE list

\* The comparison of the two list lengths dropped.
LengthsDiffer_Never(input_len, output_len) == FALSE

\* FileProcessor::new, line 70.
LengthsDiffer(input_len, output_len) == input_len # output_len

\* The index counter incremented for every line read.
NextIndex_EveryLine(index, pushed) == index + 1

\* build_output_list: index += 1 follows the two pushes only.
NextIndex(index, pushed) == IF pushed THEN index + 1 ELSE index

\* FileProcessor::build_input_list on a directory listing.
BuildInputList(self, input_dir, entries) ==
    LET listed == SupportedPaths(input_dir, entries) IN
    IF listed = {} THEN [self EXCEPT !.input_paths = <<>>]
    ELSE LET sorted == StringSort(listed) IN
         [self EXCEPT !.input_paths =
            IF self.has_stop_clause THEN Truncate(sorted, Len(self.output_paths))
            ELSE sorted]

\* The lines a name-list file can hold.  BufReader::lines yields Ok(line)
\* (Some) or, for bytes that are not UTF-8, Err (None).
LineKinds ==
    { Some(<<"a">>), Some(<<" ", "b">>), Some(<<>>), Some(<<"#", "a">>),
      Some(<<"?">>), Some(<<"?", "#">>), Some(STOP_CLAUSE), None }

NameLists == UNION { [1..n -> LineKinds] : n \in 0..MaxLines }

\* The numbers of the media files f<n>.mkv an input directory may hold.
FileNumbers == <<2, 10, 1, 11, 20>>

FileName(n) == <<"f">> \o Digits(n) \o <<".", "m", "k", "v">>

\* Directory listings: up to MaxDirFiles media files, a text file and a
\* sub-directory whose name ends in .mkv.
Directories ==
    { { [name |-> FileName(FileNumbers[j]), is_file |-> TRUE] : j \in 1..n }
      \cup { [name |-> <<"n", ".", "t", "x", "t">>, is_file |-> TRUE],
             [name |-> <<"d", ".", "m", "k", "v">>, is_file |-> FALSE] } :
        n \in 0..MaxDirFiles }

SubstitutionsOf(strings) ==
    [convert_to_proper_title_case |-> TRUE, regular_expressions |-> <<>>,
     strings |-> strings, strip_invalid_ntfs_chars |-> TRUE,
     fix_case_after_dashes |-> TRUE]

\* The index settings, substitutions and path validity of the profiles.
ProfileSettings ==
    { [start_from |-> None, index_pad_type |-> None,
       substitutions |-> SubstitutionsOf(<<>>), paths_valid |-> TRUE],
      [start_from |-> Some(9), index_pad_type |-> Some("Ten"),
       substitutions |-> SubstitutionsOf(<<>>), paths_valid |-> TRUE],
      [start_from |-> Some(0), index_pad_type |-> Some("One"),
       substitutions |-> SubstitutionsOf(<< <<"B", <<>> >> >>), paths_valid |-> TRUE],
      [start_from |-> None, index_pad_type |-> None,
       substitutions |-> SubstitutionsOf(<<>>), paths_valid |-> FALSE] }

\* FileProcessor::new, lines 44-49: the empty processor.
InitMatcher ==
    /\ BatchIdle
    /\ FilterIdle
    /\ TitleIdle
    /\ CreateIdle
    /\ ConvertIdle
    /\ MuxIdle
    /\ AttachIdle
    /\ \E st \in ProfileSettings, lines \in NameLists, entries \in Directories :
        m_profile = [input_dir |-> <<"i">>, output_dir |-> <<"o">>,
                     lines |-> lines, entries |-> entries,
                     start_from |-> st.start_from,
                     index_pad_type |-> st.index_pad_type,
                     substitutions |-> st.substitutions,
                     paths_valid |-> st.paths_valid]
    /\ m_self = [has_stop_clause |-> FALSE, input_paths |-> <<>>,
                 output_paths |-> <<>>, titles |-> <<>>]
    /\ m_line = 0
    /\ m_index = 0
    /\ m_pc = "new"
    /\ m_result = None

\* new, lines 51-57, and build_output_list up to its loop (line 166).
ValidatePaths ==
    /\ m_pc = "new"
    /\ IF m_profile.paths_valid
       THEN /\ m_pc' = "read_lines"
            /\ m_index' = IF m_profile.start_from = None THEN 0
                          ELSE CHOOSE n \in m_profile.start_from : TRUE
       ELSE /\ m_pc' = "returned"
            /\ m_index' = m_index
    /\ UNCHANGED <<m_profile, m_self, m_line, m_result>>
    /\ UNCHANGED <<batch_vars, filter_vars, title_vars>>
    /\ UNCHANGED <<create_vars, convert_vars, mux_vars, attach_vars>>

\* build_output_list, lines 167-209: one iteration of the loop over the
\* lines of the name-list file.
ReadLine ==
    /\ m_pc = "read_lines"
    /\ m_line < Len(m_profile.lines)
    /\ m_line' = m_line + 1
    /\ LET line == m_profile.lines[m_line + 1] IN
       IF line = None
       THEN /\ m_index' = NextIndex(m_index, FALSE)
            /\ UNCHANGED <<m_self, m_pc>>
       ELSE LET text == CHOOSE s \in line : TRUE
                sanitized == Apply(m_profile.substitutions, text)
            IN IF text = STOP_CLAUSE
               THEN /\ m_self' = [m_self EXCEPT !.has_stop_clause = TRUE]
                    /\ m_pc' = "listed"
                    /\ m_index' = m_index
               ELSE IF sanitized = <<>> \/ sanitized[1] = "#"
               THEN /\ m_index' = NextIndex(m_index, FALSE)
                    /\ UNCHANGED <<m_self, m_pc>>
               ELSE /\ m_self' =
                        [m_self EXCEPT
                            !.output_paths = Append(@,
                                JoinPath(m_profile.output_dir,
                                    file_name_from_padded_index(sanitized, m_index,
                                        m_profile.index_pad_type))),
                            !.titles = Append(@, sanitized)]
                    /\ m_index' = NextIndex(m_index, TRUE)
                    /\ m_pc' = m_pc
    /\ UNCHANGED <<m_profile, m_result>>
    /\ UNCHANGED <<batch_vars, filter_vars, title_vars>>
    /\ UNCHANGED <<create_vars, convert_vars, mux_vars, attach_vars>>

\* The lines are exhausted: the loop of build_output_list ends.
EndOfLines ==
    /\ m_pc = "read_lines"
    /\ m_line >= Len(m_profile.lines)
    /\ m_pc' = "listed"
    /\ UNCHANGED <<m_profile, m_self, m_line, m_index, m_result>>
    /\ UNCHANGED <<batch_vars, filter_vars, title_vars>>
    /\ UNCHANGED <<create_vars, convert_vars, mux_vars, attach_vars>>

\* new, lines 58-66: no name, no processor; else build_input_list, and
\* no input file, no processor.
InputList ==
    /\ m_pc = "listed"
    /\ IF m_self.output_paths = <<>> \/ m_self.titles = <<>>
       THEN m_self' = m_self /\ m_pc' = "returned"
       ELSE /\ m_self' = BuildInputList(m_self, m_profile.input_dir, m_profile.entries)
            /\ m_pc' = IF m_self'.input_paths = <<>> THEN "returned" ELSE "compare"
    /\ UNCHANGED <<m_profile, m_line, m_index, m_result>>
    /\ UNCHANGED <<batch_vars, filter_vars, title_vars>>
    /\ UNCHANGED <<create_vars, convert_vars, mux_vars, attach_vars>>

\* new, lines 70-87: the two lengths must be equal.
CompareLengths ==
    /\ m_pc = "compare"
    /\ m_result' = IF LengthsDiffer(Len(m_self.input_paths), Len(m_self.output_paths))
                   THEN None ELSE Some(m_self)
    /\ m_pc' = "returned"
    /\ UNCHANGED <<m_profile, m_self, m_line, m_index>>
    /\ UNCHANGED <<batch_vars, filter_vars, title_vars>>
    /\ UNCHANGED <<create_vars, convert_vars, mux_vars, attach_vars>>

NextMatcher == ValidatePaths \/ ReadLine \/ EndOfLines \/ InputList \/ CompareLengths

SpecMatcher == InitMatcher /\ [][NextMatcher]_vars

(***************************************************************************)
(* Properties of the file matcher.                                         *)
(***************************************************************************)
\* The position of the first stop-sentinel line of a name list, or one
\* past its end when it has none.
FirstStop(lines) ==
    LET stops == { n \in 1..Len(lines) : lines[n] = Some(STOP_CLAUSE) } IN
    IF stops = {} THEN Len(lines) + 1
    ELSE CHOOSE n \in stops : \A l \in stops : n <= l

HasStop(lines) == FirstStop(lines) <= Len(lines)

\* The sanitized text of a readable line.
SanitizedOf(line) == Apply(m_profile.substitutions, CHOOSE s \in line : TRUE)

\* A line that contributes an entry: readable, and its sanitized text is
\* neither empty nor a comment.
IsEntry(line) ==
    /\ line # None
    /\ SanitizedOf(line) # <<>>
    /\ SanitizedOf(line)[1] # "#"

\* The titles of the entries among the first n lines of a name list that
\* precede its first stop sentinel, in line order.
RECURSIVE EntriesOf(_, _)
EntriesOf(lines, n) ==
    IF n = 0 THEN <<>>
    ELSE EntriesOf(lines, n - 1)
         \o (IF n < FirstStop(lines) /\ IsEntry(lines[n])
             THEN <<SanitizedOf(lines[n])>> ELSE <<>>)

ValidEntries == EntriesOf(m_profile.lines, Len(m_profile.lines))

StartFrom ==
    IF m_profile.start_from = None THEN 0 ELSE CHOOSE n \in m_profile.start_from : TRUE

\* The media files of the input directory in ascending order of their
\* numbers, as paths.
RECURSIVE PathsByNumber(_)
PathsByNumber(numbers) ==
    IF numbers = {} THEN <<>>
    ELSE LET least == CHOOSE n \in numbers : \A l \in numbers : n <= l IN
         <<JoinPath(m_profile.input_dir, FileName(least))>>
            \o PathsByNumber(numbers \ {least})

MediaNumbers ==
    { FileNumbers[j] : j \in { l \in 1..Len(FileNumbers) :
        [name |-> FileName(FileNumbers[l]), is_file |-> TRUE] \in m_profile.entries } }

SortedInputs == PathsByNumber(MediaNumbers)

\* C12 as stated: with a stop sentinel after k valid entries and at least
\* k supported files in the input directory, the matcher succeeds with
\* exactly the first k files of the natural-sorted input list.
C12_StopSentinelTruncates ==
    (/\ m_pc = "returned"
     /\ m_profile.paths_valid
     /\ HasStop(m_profile.lines)
     /\ Len(SortedInputs) >= Len(ValidEntries))
    => /\ m_result # None
       /\ \A r \in m_result :
            r.input_paths = SubSeq(SortedInputs, 1, Len(ValidEntries))

\* C12 amended: the same for k >= 1; with a stop sentinel after no valid
\* entry the matcher fails, as for every empty name list.
C12_StopSentinelTruncatesNonEmpty ==
    (/\ m_pc = "returned"
     /\ m_profile.paths_valid
     /\ HasStop(m_profile.lines)
     /\ Len(SortedInputs) >= Len(ValidEntries))
    => IF Len(ValidEntries) >= 1
       THEN /\ m_result # None
            /\ \A r \in m_result :
                /\ r.has_stop_clause
                /\ r.input_paths = SubSeq(SortedInputs, 1, Len(ValidEntries))
                /\ r.titles = ValidEntries
                /\ Len(r.output_paths) = Len(ValidEntries)
       ELSE m_result = None

\* C12 witness: the matcher succeeded with the first two of three media
\* files for a name list with a stop sentinel after two valid entries.
C12_Witness ==
    /\ m_pc = "returned"
    /\ HasStop(m_profile.lines)
    /\ Len(ValidEntries) = 2
    /\ Len(SortedInputs) = 3
    /\ \E r \in m_result : Len(r.input_paths) = 2

IsSkippable(substitutions, text) ==
    \/ text = <<>>
    \/ Head(text) = "#"
    \/ Apply(substitutions, text) = <<>>

\* The lines build_output_list skips are the ones that are empty or start
\* with '#' once the substitutions have been applied.
SkippedLinesAreEmptyOrComments ==
    \A st \in ProfileSettings, line \in LineKinds \ {None, Some(STOP_CLAUSE)} :
        LET text == CHOOSE x \in line : TRUE
            sanitized == Apply(st.substitutions, text)
        IN IsSkippable(st.substitutions, text)
            => (sanitized = <<>> \/ sanitized[1] = "#")

F1 == JoinPath(<<"i">>, FileName(1))
F2 == JoinPath(<<"i">>, FileName(2))
F10 == JoinPath(<<"i">>, FileName(10))

\* The natural sort of the example directory.
SortedExample == StringSort({F2, F10, F1})

\* C15: the input files are ordered by natural sort, numeric runs by
\* value: [f2.mkv, f10.mkv, f1.mkv] is ordered f1, f2, f10, and the input
\* list of the matcher is the directory's media files in ascending order
\* of their numbers (cut to the name-list length after a stop sentinel).
C15_NaturalSort ==
    /\ SortedExample = <<F1, F2, F10>>
    /\ m_pc \in {"compare", "returned"} =>
        \E n \in 0..Len(SortedInputs) :
            /\ m_self.input_paths = SubSeq(SortedInputs, 1, n)
            /\ ~m_self.has_stop_clause /\ m_self.output_paths # <<>>
                    /\ m_profile.paths_valid
                => n = Len(SortedInputs)

\* C15 witness: the input list has been built from a directory holding
\* f2.mkv, f10.mkv and f1.mkv, without truncation.
C15_Witness ==
    /\ m_pc = "compare"
    /\ ~m_self.has_stop_clause
    /\ m_self.input_paths = <<F1, F2, F10>>

(***************************************************************************)
(* More properties of the filter pass.                                     *)
(***************************************************************************)
\* The first n elements of a list, or all of it when it is shorter.
FirstOf(list, n) == IF n < Len(list) THEN SubSeq(list, 1, n) ELSE list

\* An Index or a Language predicate with an empty accepted set.
IsEmptySetPredicate(predicate) ==
    \/ predicate.kind = "Indices" /\ predicate.indices = {}
    \/ predicate.kind = "Languages" /\ predicate.language_ids = {}

\* C16: is_match of an Index predicate and of a Language predicate with
\* an empty accepted set is true for every candidate, and a category
\* filtered by such a predicate keeps every track of the category, up to
\* its quota.
C16_EmptySetKeepsAll ==
    /\ \A needle \in 0..MaxTracks : IndexIsMatch({}, needle)
    /\ \A needle \in {"ja", "en", "und"} : LanguageIsMatch({}, needle)
    /\ f_pc \in {"filtered", "muxed"} =>
        \A cat \in Categories :
            LET policy == CategoryParams(f_params, cat) IN
            IsEmptySetPredicate(policy.predicate) =>
                /\ policy.total_to_retain = None =>
                    TracksOf(f_kept, cat) = TracksOf(f_input, cat)
                /\ \A n \in policy.total_to_retain :
                    n >= 1 => TracksOf(f_kept, cat) = FirstOf(TracksOf(f_input, cat), n)

\* C19: tracks of category general or menu are never in the kept list;
\* tracks of category button or other are kept exactly when the
\* other-tracks import flag is set, whatever the predicates and quotas.
C19_KeptByCategory ==
    /\ \A j \in 1..Len(f_kept) : f_kept[j].track_type \notin {"General", "Menu"}
    /\ f_pc \in {"loop", "filtered", "muxed"} =>
        \A cat \in {"Button", "Other"} :
            TracksOf(f_kept, cat) =
                (IF f_params.other_tracks.import_from_original
                 THEN TracksOf(SubSeq(f_input, 1, f_index), cat)
                 ELSE <<>>)
    /\ f_pc \in {"filtered", "muxed"} =>
        \A cat \in {"General", "Menu", "Button", "Other"} :
            TracksOf(f_tracks, cat) = TracksOf(f_kept, cat)

\* C19 witness: the pass is over for an input with a menu and a button
\* track under a policy that imports other tracks and filters a category
\* with a predicate and a quota; the button track was kept.
C19_Witness ==
    /\ f_pc = "filtered"
    /\ f_params.other_tracks.import_from_original
    /\ \E cat \in Categories :
        /\ CategoryParams(f_params, cat).predicate.kind # "None"
        /\ CategoryParams(f_params, cat).total_to_retain # None
    /\ Len(TracksOf(f_input, "Menu")) = 1
    /\ Len(TracksOf(f_kept, "Button")) = 1

\* The language a track must carry when filter_tracks is called.
BackfilledLanguage(track, p) ==
    IF /\ track.track_type \in Categories
       /\ track.language = default_track_language
       /\ CategoryParams(p, track.track_type).default_language # None
    THEN CHOOSE l \in CategoryParams(p, track.track_type).default_language : TRUE
    ELSE track.language

\* C20: for each category with a configured default language L, every
\* track of the category whose language was und carries L when it is
\* filtered and kept; every other track keeps its language; the rewrite
\* precedes the filter loop and the quota validation.
C20_DefaultLanguageBackfill ==
    /\ f_pc = "defaults" => (f_kept = <<>> /\ f_counter = EmptyCounter /\ f_index = 0)
    /\ f_pc \in {"loop", "filtered", "muxed"} =>
        /\ Len(f_input) = Len(f_original)
        /\ \A j \in 1..Len(f_original) :
            f_input[j] = [f_original[j] EXCEPT
                            !.language = BackfilledLanguage(f_original[j], f_params)]
        /\ \A j \in 1..Len(f_kept) :
            \E l \in 1..Len(f_input) : f_kept[j] = f_input[l]
    /\ f_pc \in {"filtered", "muxed"} => f_tracks = f_kept

\* C20 witness: the pass succeeded for an input with an audio track of
\* language ja and one of language und, under an audio policy with
\* default language ja, predicate Language([ja]) and no quota: both audio
\* tracks were kept, with language ja.
C20_Witness ==
    /\ f_pc = "filtered"
    /\ f_success
    /\ f_params.audio_tracks.default_language = Some("ja")
    /\ f_params.audio_tracks.predicate = PredLanguages({"ja"})
    /\ \E j \in 1..Len(f_original) :
        f_original[j].track_type = "Audio" /\ f_original[j].language = "und"
    /\ \E j \in 1..Len(f_original) :
        f_original[j].track_type = "Audio" /\ f_original[j].language = "ja"
    /\ Len(TracksOf(f_kept, "Audio")) = 2
    /\ \A j \in 1..Len(f_kept) :
        f_kept[j].track_type = "Audio" => f_kept[j].language = "ja"

(***************************************************************************)
(* MediaFile creation (SpecCreate): from_path run by one or more threads   *)
(* that share the static UNIQUE_ID counter.                                *)
(***************************************************************************)
MaxThreads == 2
MaxCreates == 2

\* A fetch_add that stores the counter back unchanged.
FetchAdd_Stale(counter, val) == [previous |-> counter, stored |-> counter]

\* AtomicUsize::fetch_add(val, Ordering::SeqCst): one indivisible step that
\* returns the previous value and stores previous + val.
FetchAdd(counter, val) == [previous |-> counter, stored |-> counter + val]

\* MediaFile::get_temp_path: PATHS.temp joined with the id.
TempPath(id) == <<"temp", id>>

Threads == DOMAIN c_pc

InitCreate ==
    /\ BatchIdle /\ FilterIdle /\ TitleIdle /\ MatcherIdle
    /\ ConvertIdle /\ MuxIdle /\ AttachIdle
    /\ c_UNIQUE_ID = 0
    /\ \E n \in 1..MaxThreads :
        /\ c_pc = [t \in 1..n |-> "exists"]
        /\ c_left \in [1..n -> 1..MaxCreates]
    /\ c_created = <<>>
    /\ c_dirs = <<>>

\* from_path returned (None or Some): the thread goes on to its next input.
Returned(t) ==
    /\ c_left' = [c_left EXCEPT ![t] = @ - 1]
    /\ c_pc' = [c_pc EXCEPT ![t] = IF c_left[t] = 1 THEN "done" ELSE "exists"]

\* from_path, lines 691-702: a missing file yields None; otherwise the
\* subsection title reads the counter with fetch_add(0).
CheckExists ==
    \E t \in Threads :
        /\ c_pc[t] = "exists"
        /\ \E exists \in BOOLEAN :
            IF exists
            THEN /\ c_UNIQUE_ID' = FetchAdd(c_UNIQUE_ID, 0).stored
                 /\ c_pc' = [c_pc EXCEPT ![t] = "mediainfo"]
                 /\ UNCHANGED c_left
            ELSE Returned(t) /\ UNCHANGED c_UNIQUE_ID
        /\ UNCHANGED <<c_created, c_dirs>>
        /\ UNCHANGED <<batch_vars, filter_vars, title_vars, matcher_vars>>
        /\ UNCHANGED <<convert_vars, mux_vars, attach_vars>>

\* from_path, lines 705-717: the MediaInfo run; a launch error yields None.
RunMediaInfo ==
    \E t \in Threads :
        /\ c_pc[t] = "mediainfo"
        /\ \E launched \in BOOLEAN :
            IF launched
            THEN c_pc' = [c_pc EXCEPT ![t] = "parse"] /\ UNCHANGED c_left
            ELSE Returned(t)
        /\ UNCHANGED <<c_UNIQUE_ID, c_created, c_dirs>>
        /\ UNCHANGED <<batch_vars, filter_vars, title_vars, matcher_vars>>
        /\ UNCHANGED <<convert_vars, mux_vars, attach_vars>>

\* from_path, lines 722-723: when the JSON deserializes, the instance takes
\* its id with fetch_add(1); otherwise from_path yields None.
TakeId ==
    \E t \in Threads :
        /\ c_pc[t] = "parse"
        /\ \E parsed \in BOOLEAN :
            IF parsed
            THEN LET r == FetchAdd(c_UNIQUE_ID, 1)
                 IN /\ c_UNIQUE_ID' = r.stored
                    /\ c_created' = Append(c_created,
                            [id |-> r.previous, thread |-> t,
                             temp |-> TempPath(r.previous)])
                    /\ c_pc' = [c_pc EXCEPT ![t] = "temp"]
                    /\ UNCHANGED c_left
            ELSE Returned(t) /\ UNCHANGED <<c_UNIQUE_ID, c_created>>
        /\ UNCHANGED c_dirs
        /\ UNCHANGED <<batch_vars, filter_vars, title_vars, matcher_vars>>
        /\ UNCHANGED <<convert_vars, mux_vars, attach_vars>>

\* The instance the thread is constructing: the last one it created.
CurrentOf(t) ==
    CHOOSE n \in 1..Len(c_created) :
        /\ c_created[n].thread = t
        /\ \A l \in 1..Len(c_created) : c_created[l].thread = t => l <= n

\* from_path, lines 726-741: init_temp_directory creates the subdirectories
\* of the instance's temp path; Some(mf) is returned.
InitTempDirectory ==
    \E t \in Threads :
        /\ c_pc[t] = "temp"
        /\ LET n == CurrentOf(t)
               d == c_created[n].temp
           IN c_dirs' = [x \in DOMAIN c_dirs \cup {d} |->
                            IF x = d
                            THEN (IF d \in DOMAIN c_dirs THEN c_dirs[d] ELSE {}) \cup {n}
                            ELSE c_dirs[x]]
        /\ Returned(t)
        /\ UNCHANGED <<c_UNIQUE_ID, c_created>>
        /\ UNCHANGED <<batch_vars, filter_vars, title_vars, matcher_vars>>
        /\ UNCHANGED <<convert_vars, mux_vars, attach_vars>>

NextCreate == CheckExists \/ RunMediaInfo \/ TakeId \/ InitTempDirectory

SpecCreate == InitCreate /\ [][NextCreate]_vars

\* C21: instances created one after the other, by the same or by different
\* threads, have strictly increasing (hence distinct) ids and distinct temp
\* paths, and no temp subdirectory is set up by two instances.
C21_DistinctIncreasingIds ==
    /\ \A p \in 1..Len(c_created), q \in 1..Len(c_created) :
          p < q => /\ c_created[p].id < c_created[q].id
                   /\ c_created[p].temp # c_created[q].temp
    /\ \A d \in DOMAIN c_dirs : Cardinality(c_dirs[d]) = 1

\* C21 witness: two threads each created an instance and set up its temp
\* directory, the second taking its id while the first was still inside
\* from_path or after it.
C21_Witness ==
    /\ Len(c_created) >= 2
    /\ c_created[1].thread # c_created[2].thread
    /\ {c_created[1].temp, c_created[2].temp} \subseteq DOMAIN c_dirs

(***************************************************************************)
(* Soft failures of the pipeline.                                          *)
(***************************************************************************)
SoftFailures ==
    {"flag_mismatch", "attachment_missing", "pre_mux_launch_failed",
     "post_mux_launch_failed", "temp_files_not_removed"}

\* The position process is at after `stage` ended without a hard failure.
Following(stage) ==
    IF stage = "cleanup" THEN "return_true" ELSE Stages[Rank(stage) + 1]

\* C22: a step of process that logs a soft failure (a selected attachment
\* missing at mux time, a flag the track's category does not support, a
\* hook command that fails to launch, temp files that cannot be deleted or
\* trashed) goes on to the stage that follows, and after cleanup to the
\* return of true, unless the external tool of that very stage failed hard.
C22_SoftFailuresNeverAbort ==
    [][ (warnings' \ warnings # {}) =>
            LET e == log'[Len(log')]
            IN e.result = "ok" => pc' = Following(e.stage) ]_vars

\* C22 witness: process is about to return true for a file for which every
\* kind of soft failure was logged.
C22_Witness ==
    /\ pc = "return_true"
    /\ warnings = SoftFailures

(***************************************************************************)
(* The shutdown after the batch.                                           *)
(***************************************************************************)
ShutdownAttempts == 1..Len(shutdowns)

\* C23: with shutdown_upon_completion set, the shutdown is attempted
\* exactly once per batch run, after the last stage entry of the last file
\* processed, whether all files succeeded or the batch halted on a failure;
\* without the setting it is never attempted; and the outcome of the
\* shutdown call changes nothing but the log (the success flag is the one
\* the loop left).
C23_ShutdownOnce ==
    /\ pc # "done" => ShutdownAttempts = {}
    /\ pc = "done" =>
        /\ ShutdownAttempts =
              IF params.misc.shutdown_upon_completion = Some(TRUE)
              THEN {1} ELSE {}
        /\ \A j \in ShutdownAttempts : shutdowns[j].after = Len(log)
        /\ success = ~(\E j \in LogIdx : log[j].stage = "failed")

\* C23 witness: the batch halted on a failed file with files left over,
\* the shutdown was attempted and the shutdown call itself failed.
C23_Witness ==
    /\ pc = "done"
    /\ ~success
    /\ i < Len(media)
    /\ Len(shutdowns) = 1
    /\ shutdowns[1].result = "fail"

(***************************************************************************)
(* Audio conversion of one file (SpecConvert): convert_all_audio, one      *)
(* track per step, with the files of the temp tracks directory.            *)
(***************************************************************************)
MaxAudio == 2

\* The variants matched by From<AudioCodec> for Codec.
AudioCodecs ==
    {"Aac", "AacLibfdk", "Ac3", "Flac", "Mp2", "Mp3Lame", "Mp3Shine", "Opus",
     "Vorbis", "WavPack"}

\* MediaFileTrack::get_extension_from_codec
GetExtensionFromCodec(codec) ==
    CASE codec = "Aac" -> "aac" [] codec = "Ac3" -> "ac3" [] codec = "Acm" -> "acm"
      [] codec = "AdvancedSsa" -> "ass" [] codec = "Alac" -> "m4a"
      [] codec = "Avs" -> "avs" [] codec = "Dts" -> "dts" [] codec = "Eac3" -> "eac3"
      [] codec = "FfV1" -> "ffv1" [] codec = "Flac" -> "flac"
      [] codec = "H264" -> "h264" [] codec = "Hevc" -> "hevc" [] codec = "Ms" -> "m2ts"
      [] codec = "Mp1" -> "mp1" [] codec = "Mp2" -> "mp2" [] codec = "Mp3" -> "mp3"
      [] codec = "Musepack" -> "mpc" [] codec = "Opus" -> "opus"
      [] codec = "Pcm" -> "pcm" [] codec = "ProRes" -> "prores"
      [] codec = "QuickTime" -> "mov" [] codec = "Raw" -> "raw"
      [] codec = "RealAudio" -> "ra" [] codec = "RealVideo" -> "rm"
      [] codec = "SubStationAlpha" -> "ssa"
      [] codec \in {"DvbSubtitle", "Kate", "Hdmv", "SubTextUtf8"} -> "srt"
      [] codec = "SubtitleBitmap" -> "bmp" [] codec = "Theora" -> "ogg"
      [] codec = "TheTrueAudio" -> "ta1" [] codec = "Unknown" -> "unknown"
      [] codec = "VobSub" -> "sub" [] codec = "Vp8" -> "vp8" [] codec = "Vp9" -> "vp9"
      [] codec = "WavPack4" -> "wv" [] codec = "WebVtt" -> "vtt"

\* MediaFileTrack::get_out_file_name: "{track_type}_{id}_{language}.{ext}",
\* kept as its stem and its extension.
GetOutFileName(track) ==
    [stem |-> <<track.track_type, track.id, track.language>>,
     ext |-> GetExtensionFromCodec(track.codec)]

\* MediaFileTrack::get_input_file_path: <temp>\<file_id>\tracks\<name>.
GetInputFilePath(track) ==
    [dir |-> <<"temp", track.file_id, "tracks">>, name |-> GetOutFileName(track)]

\* utils::swap_file_extension (PathBuf::set_extension).
SwapFileExtension(fp, new_ext) == [fp EXCEPT !.name.ext = new_ext]

\* MediaFileTrack::get_output_file_path
GetOutputFilePath(track, out_codec) ==
    SwapFileExtension(GetInputFilePath(track), GetExtensionFromCodec(out_codec))

\* convert_all_audio, lines 241-243: the input path with the track's file
\* name replaced by "moved{id}.{out_ext}".
MovedFilePath(track, out_codec) ==
    [GetInputFilePath(track) EXCEPT
        !.name = [stem |-> <<"moved", track.id>>,
                  ext |-> GetExtensionFromCodec(out_codec)]]

\* convert_all_audio encoding in place when the two paths are equal.
RenameOnCollision_InPlace(track, out_codec, rename_ok) ==
    [success |-> TRUE, renamed |-> FALSE, in_file_path |-> GetInputFilePath(track)]

\* convert_all_audio, lines 232-251: when the input and output paths are
\* equal the input file is renamed; rename_ok is whether fs::rename worked.
RenameOnCollision(track, out_codec, rename_ok) ==
    IF GetInputFilePath(track) = GetOutputFilePath(track, out_codec)
    THEN IF rename_ok
         THEN [success |-> TRUE, renamed |-> TRUE,
               in_file_path |-> MovedFilePath(track, out_codec)]
         ELSE [success |-> FALSE, renamed |-> FALSE,
               in_file_path |-> GetInputFilePath(track)]
    ELSE [success |-> TRUE, renamed |-> FALSE, in_file_path |-> GetInputFilePath(track)]

\* AudioConvertParams::validate: "valid" (true), "invalid" (false), or
\* "todo" where the code reaches todo!().
Validate(p) ==
    IF p.codec = None THEN "valid"
    ELSE IF p.codec = Some("Opus")
         THEN IF /\ \A v \in p.vbr : v.kind = "Opus"
                 /\ \A c \in p.compression_level : c <= 10
              THEN "valid" ELSE "invalid"
         ELSE "todo"

\* AudioConvertParams::as_ffmpeg_argument_list: whether the call aborted
\* in todo!(), and otherwise the Option it returned: None, or Some(the
\* list) with its input and output file.
AsFfmpegArgumentList(p, file_in, file_out) ==
    LET valid == Validate(p)
    IN IF valid = "todo" THEN [aborted |-> TRUE, list |-> None]
       ELSE IF valid = "invalid" THEN [aborted |-> FALSE, list |-> None]
       ELSE [aborted |-> FALSE,
             list |-> Some([input |-> file_in, output |-> file_out,
                            codec |-> CHOOSE c \in p.codec : TRUE])]

\* converters::convert_audio_file with o the way the ffmpeg subprocess
\* ends: "ok" / "fail" (returns true / false), "todo" or "panic" (output.unwrap()
\* on a launch error); `launched` is whether run_ffmpeg was called.
ConvertAudioFile(p, file_in, file_out, o) ==
    LET args == AsFfmpegArgumentList(p, file_in, file_out)
    IN IF args.aborted THEN [result |-> "todo", launched |-> FALSE]
       ELSE IF args.list = None THEN [result |-> "fail", launched |-> FALSE]
       ELSE [result |-> FfmpegOutcome(o), launched |-> TRUE]

\* The kept tracks a file can have when its audio is converted.
ConvertTrackKinds ==
    { [track_type |-> "Video", language |-> "und", codec |-> "H264"],
      [track_type |-> "Audio", language |-> "ja", codec |-> "Opus"],
      [track_type |-> "Audio", language |-> "en", codec |-> "Flac"],
      [track_type |-> "Audio", language |-> "und", codec |-> "Aac"] }

ConvertTrackLists ==
    { [j \in 1..Len(kinds) |->
         [track_type |-> kinds[j].track_type, id |-> j - 1,
          language |-> kinds[j].language, codec |-> kinds[j].codec,
          file_id |-> 0]] :
        kinds \in UNION { [1..n -> ConvertTrackKinds] : n \in 1..MaxAudio } }

\* The audio conversion parameters: every target codec, with and without
\* vbr and compression_level settings.
AudioConvertParams ==
    { [codec |-> Some(c), vbr |-> v, compression_level |-> l] :
        c \in AudioCodecs,
        v \in {None, Some([kind |-> "Opus", option |-> "On"]),
               Some([kind |-> "AacLibfdk", option |-> 3])},
        l \in {None, Some(10), Some(11)} }
    \cup {[codec |-> None, vbr |-> None, compression_level |-> None]}

\* On entry to convert_all_audio the tracks have been extracted.
InitConvert ==
    /\ BatchIdle /\ FilterIdle /\ TitleIdle /\ MatcherIdle
    /\ CreateIdle /\ MuxIdle /\ AttachIdle
    /\ a_tracks \in ConvertTrackLists
    /\ a_params \in AudioConvertParams
    /\ a_index = 0
    /\ a_files = { GetInputFilePath(a_tracks[j]) : j \in 1..Len(a_tracks) }
    /\ a_calls = <<>>
    /\ a_updated = <<>>
    /\ a_pc = "start"
    /\ a_result = None

\* convert_all_audio, lines 207-216.
ConvertStart ==
    /\ a_pc = "start"
    /\ IF a_params.codec = None
       THEN a_pc' = "returned" /\ a_result' = Some(TRUE)
       ELSE a_pc' = "loop" /\ a_result' = a_result
    /\ UNCHANGED <<a_tracks, a_params, a_index, a_files, a_calls, a_updated>>
    /\ UNCHANGED <<batch_vars, filter_vars, title_vars, matcher_vars>>
    /\ UNCHANGED <<create_vars, mux_vars, attach_vars>>

\* The .filter(|(_, x)| x.track_type == TrackType::Audio) of the loop.
SkipTrack ==
    /\ a_pc = "loop"
    /\ a_index < Len(a_tracks)
    /\ a_tracks[a_index + 1].track_type # "Audio"
    /\ a_index' = a_index + 1
    /\ UNCHANGED <<a_tracks, a_params, a_files, a_calls, a_updated, a_pc, a_result>>
    /\ UNCHANGED <<batch_vars, filter_vars, title_vars, matcher_vars>>
    /\ UNCHANGED <<create_vars, mux_vars, attach_vars>>

\* One iteration of the loop, lines 226-284, for an audio track.
ConvertTrack ==
    /\ a_pc = "loop"
    /\ a_index < Len(a_tracks)
    /\ a_tracks[a_index + 1].track_type = "Audio"
    /\ \E rename_ok \in BOOLEAN, o \in AdapterOutcomes :
        LET t == a_tracks[a_index + 1]
            out_codec == CodecFromAudioCodec(CHOOSE c \in a_params.codec : TRUE)
            out_file_path == GetOutputFilePath(t, out_codec)
            r == RenameOnCollision(t, out_codec, rename_ok)
            c == IF r.success
                 THEN ConvertAudioFile(a_params, r.in_file_path, out_file_path, o)
                 ELSE [result |-> "fail", launched |-> FALSE]
            moved == IF r.renamed
                     THEN (a_files \ {GetInputFilePath(t)}) \cup {r.in_file_path}
                     ELSE a_files
        IN /\ a_files' = IF c.result = "ok" THEN moved \cup {out_file_path} ELSE moved
           /\ a_calls' = IF c.launched
                         THEN Append(a_calls,
                                [track |-> a_index, original |-> GetInputFilePath(t),
                                 input |-> r.in_file_path, output |-> out_file_path,
                                 present |-> r.in_file_path \in moved])
                         ELSE a_calls
           /\ a_updated' = IF c.result = "ok" THEN Append(a_updated, a_index)
                           ELSE a_updated
           /\ a_index' = a_index + 1
           /\ a_pc' = CASE c.result = "ok" -> "loop"
                        [] c.result = "fail" -> "returned"
                        [] c.result = "todo" -> "panicked_validate"
                        [] c.result = "panic" -> "panicked_run_ffmpeg"
           /\ a_result' = IF c.result = "fail" THEN Some(FALSE) ELSE a_result
    /\ UNCHANGED <<a_tracks, a_params>>
    /\ UNCHANGED <<batch_vars, filter_vars, title_vars, matcher_vars>>
    /\ UNCHANGED <<create_vars, mux_vars, attach_vars>>

\* convert_all_audio, lines 287-292: the codecs of the converted tracks
\* are updated and true is returned.
ConvertFinish ==
    /\ a_pc = "loop"
    /\ a_index = Len(a_tracks)
    /\ a_tracks' = [j \in 1..Len(a_tracks) |->
                      IF \E n \in 1..Len(a_updated) : a_updated[n] = j - 1
                      THEN [a_tracks[j] EXCEPT !.codec =
                              CodecFromAudioCodec(CHOOSE c \in a_params.codec : TRUE)]
                      ELSE a_tracks[j]]
    /\ a_pc' = "returned"
    /\ a_result' = Some(TRUE)
    /\ UNCHANGED <<a_params, a_index, a_files, a_calls, a_updated>>
    /\ UNCHANGED <<batch_vars, filter_vars, title_vars, matcher_vars>>
    /\ UNCHANGED <<create_vars, mux_vars, attach_vars>>

NextConvert == ConvertStart \/ SkipTrack \/ ConvertTrack \/ ConvertFinish

SpecConvert == InitConvert /\ [][NextConvert]_vars

\* The extensions of audio files.
AudioExtensions == {"aac", "ac3", "flac", "mp2", "mp3", "opus", "wv"}

\* C24: every target audio codec has one output extension, an audio one;
\* and every encoder invocation has distinct input and output paths: for a
\* track whose extracted file already carries the target extension (input
\* path equal to output path) the encoder reads the renamed file
\* "moved{id}.{ext}", which is in the tracks directory in place of the
\* original, and for any other track it reads the extracted file.
C24_CollisionRename ==
    /\ \A ac \in AudioCodecs :
          GetExtensionFromCodec(CodecFromAudioCodec(ac)) \in AudioExtensions
    /\ \A n \in 1..Len(a_calls) :
          LET c == a_calls[n] IN
          /\ c.input # c.output
          /\ c.present
          /\ IF c.original = c.output
             THEN /\ c.input # c.original
                  /\ c.input.name.stem = <<"moved", c.track>>
                  /\ \A l \in 1..Len(a_calls) : l # n => a_calls[l].input # c.input
             ELSE c.input = c.original

\* C24 witness: the encoder was invoked for a track whose extracted file
\* has the extension of the target codec, and the conversion succeeded.
C24_Witness ==
    \E n \in 1..Len(a_calls) :
        /\ a_calls[n].original = a_calls[n].output
        /\ a_calls[n].output \in a_files
        /\ a_calls[n].track \in { a_updated[l] : l \in 1..Len(a_updated) }

(***************************************************************************)
(* Subtitle and video conversion requests.                                 *)
(***************************************************************************)
\* C25: for a policy with subtitle or video conversion parameters no file
\* is ever remuxed and no file ever returns true: process stops the file
\* at the latest in the conversion stage.
C25_ConversionRequestNotIgnored ==
    (params.subtitle_tracks.conversion # None \/ params.video_tracks.conversion # None)
        => /\ \A j \in LogIdx :
                log[j].stage \notin {"pre_mux", "remux", "post_mux", "cleanup"}
           /\ pc \notin {"pre_mux", "remux", "post_mux", "cleanup", "return_true"}

\* C25 witness: video conversion parameters are configured (and no subtitle
\* ones), the file was filtered and extracted, and the conversion stage
\* stopped the program.
C25_Witness ==
    /\ params.video_tracks.conversion # None
    /\ params.subtitle_tracks.conversion = None
    /\ pc = "panicked"
    /\ log[Len(log)].stage = "convert"
    /\ log[Len(log)].result = "panic"

(***************************************************************************)
(* Per-track mux arguments (SpecMux): apply_track_mux_params, one track    *)
(* per step.                                                               *)
(***************************************************************************)
MaxMuxTracks == 2

\* apply_track_mux_params, lines 1113-1126: the delay and the delay source
\* after the delay override of the track's parameters, if there is one.
EffectiveDelay(track, index, all_track_params) ==
    LET found == IF all_track_params = None THEN None
                 ELSE FindTrackParams(CHOOSE x \in all_track_params : TRUE, index)
        overrides == UNION { tp.delay_override : tp \in found }
    IN IF overrides = {}
       THEN [delay |-> track.delay, delay_source |-> track.delay_source]
       ELSE [delay |-> CHOOSE d \in overrides : TRUE,
             delay_source |-> IF track.delay_source = "None" THEN "Container"
                              ELSE track.delay_source]

\* apply_track_mux_params, lines 1128-1140: the value of the "--sync 0:<n>"
\* argument if one is pushed; a delay source other than Container and None
\* reaches todo!().
SyncArgument(track, index, all_track_params) ==
    LET e == EffectiveDelay(track, index, all_track_params)
    IN IF e.delay = 0 \/ e.delay_source = "None" THEN [aborted |-> FALSE, sync |-> None]
       ELSE IF e.delay_source = "Container"
            THEN [aborted |-> FALSE, sync |-> Some(track.delay)]
            ELSE [aborted |-> TRUE, sync |-> None]

\* One iteration of apply_track_mux_params for the track at position
\* index (0-based): the arguments pushed for it.
TrackMuxArguments(tracks, index, all_track_params) ==
    LET track == tracks[index + 1]
    IN [sync |-> SyncArgument(track, index, all_track_params).sync,
        display_dimensions |-> IF track.width # 0 /\ track.height # 0
                               THEN Some(<<track.width, track.height>>) ELSE None,
        color_bits_per_channel |-> IF track.bit_depth # 0
                                   THEN Some(track.bit_depth) ELSE None,
        flags |-> ApplyAdditionalTrackMuxParams(tracks, index, all_track_params).opts,
        language |-> MuxLanguage(track),
        file |-> GetOutFileName(track)]

\* The kept tracks of the mux pass: their type, delay (ms), delay source
\* and picture properties.
MuxTrackKinds ==
    { [track_type |-> "Video", codec |-> "H264", language |-> "und", delay |-> 0,
       delay_source |-> "None", width |-> 1920, height |-> 1080, bit_depth |-> 8],
      [track_type |-> "Subtitle", codec |-> "AdvancedSsa", language |-> "en",
       delay |-> 0, delay_source |-> "None", width |-> 0, height |-> 0,
       bit_depth |-> 0] }
    \cup
    { [track_type |-> "Audio", codec |-> "Opus", language |-> "ja", delay |-> d,
       delay_source |-> src, width |-> 0, height |-> 0, bit_depth |-> 0] :
        d \in {0, 100}, src \in {"None", "Container", "Stream"} }

MuxTrackLists ==
    { [j \in 1..Len(kinds) |->
         [track_type |-> kinds[j].track_type, id |-> j - 1,
          codec |-> kinds[j].codec, language |-> kinds[j].language,
          delay |-> kinds[j].delay, delay_source |-> kinds[j].delay_source,
          width |-> kinds[j].width, height |-> kinds[j].height,
          bit_depth |-> kinds[j].bit_depth]] :
        kinds \in UNION { [1..n -> MuxTrackKinds] : n \in 1..MaxMuxTracks } }

\* The TrackParams entries for track id: one setting configured, the two
\* impairment settings in every combination, everything configured, or a
\* delay override.
TrackParamsEntries(id) ==
    LET none == NoTrackParams(id) IN
    UNION { { [none EXCEPT !.default = Some(b)], [none EXCEPT !.enabled = Some(b)],
              [none EXCEPT !.forced = Some(b)],
              [none EXCEPT !.text_descriptions = Some(b)],
              [none EXCEPT !.original = Some(b)],
              [none EXCEPT !.commentary = Some(b)],
              [id |-> id, default |-> Some(b), enabled |-> Some(b),
               forced |-> Some(b), hearing_impaired |-> Some(b),
               visual_impaired |-> Some(b), text_descriptions |-> Some(b),
               original |-> Some(b), commentary |-> Some(b),
               delay_override |-> None] } : b \in BOOLEAN }
    \cup
    { [none EXCEPT !.hearing_impaired = h, !.visual_impaired = v] :
        h \in {None, Some(TRUE), Some(FALSE)}, v \in {None, Some(TRUE), Some(FALSE)} }
    \cup
    { [none EXCEPT !.delay_override = Some(d)] : d \in {0, 250, -40} }

InitMux ==
    /\ BatchIdle /\ FilterIdle /\ TitleIdle /\ MatcherIdle
    /\ CreateIdle /\ ConvertIdle /\ AttachIdle
    /\ x_tracks \in MuxTrackLists
    /\ x_track_params \in
          {None} \cup { Some(<<e>>) : e \in UNION { TrackParamsEntries(id) :
                                                    id \in 0..(Len(x_tracks) - 1) } }
    /\ x_index = 0
    /\ x_args = <<>>
    /\ x_warnings = <<>>
    /\ x_pc = "loop"

\* One iteration of the loop of apply_track_mux_params.
MuxTrack ==
    /\ x_pc = "loop"
    /\ x_index < Len(x_tracks)
    /\ IF SyncArgument(x_tracks[x_index + 1], x_index, x_track_params).aborted
       THEN /\ x_pc' = "panicked"
            /\ UNCHANGED <<x_index, x_args, x_warnings>>
       ELSE /\ x_args' = Append(x_args,
                            TrackMuxArguments(x_tracks, x_index, x_track_params))
            /\ x_warnings' = Append(x_warnings,
                    ApplyAdditionalTrackMuxParams(x_tracks, x_index,
                                                  x_track_params).warned)
            /\ x_index' = x_index + 1
            /\ x_pc' = x_pc
    /\ UNCHANGED <<x_tracks, x_track_params>>
    /\ UNCHANGED <<batch_vars, filter_vars, title_vars, matcher_vars>>
    /\ UNCHANGED <<create_vars, convert_vars, attach_vars>>

\* The loop is exhausted: apply_track_mux_params returns.
MuxReturn ==
    /\ x_pc = "loop"
    /\ x_index = Len(x_tracks)
    /\ x_pc' = "returned"
    /\ UNCHANGED <<x_tracks, x_track_params, x_index, x_args, x_warnings>>
    /\ UNCHANGED <<batch_vars, filter_vars, title_vars, matcher_vars>>
    /\ UNCHANGED <<create_vars, convert_vars, attach_vars>>

NextMux == MuxTrack \/ MuxReturn

SpecMux == InitMux /\ [][NextMux]_vars

\* The parameters configured for the track at position j (1-based), or an
\* entry with nothing configured.
ConfiguredFor(j) ==
    LET entries == { e \in UNION { { tp[n] : n \in 1..Len(tp) } : tp \in x_track_params } :
                       e.id = j - 1 }
    IN IF entries = {} THEN NoTrackParams(j - 1) ELSE CHOOSE e \in entries : TRUE

\* C26: for every track whose arguments were built with a delay override d,
\* a non-zero d yields a sync argument of value d and a zero d yields no
\* sync argument.
C26_DelayOverride ==
    \A j \in 1..Len(x_args) :
        \A d \in ConfiguredFor(j).delay_override :
            x_args[j].sync = IF d # 0 THEN Some(d) ELSE None

\* The eight flags with the setting of TrackParams each one is named
\* after and the track types that support it.
FlagNames ==
    {"default-track", "track-enabled", "forced-display", "hearing-impaired",
     "visual-impaired", "text-descriptions", "original", "commentary"}

OwnSetting(tp, flag) ==
    CASE flag = "default-track" -> tp.default
      [] flag = "track-enabled" -> tp.enabled
      [] flag = "forced-display" -> tp.forced
      [] flag = "hearing-impaired" -> tp.hearing_impaired
      [] flag = "visual-impaired" -> tp.visual_impaired
      [] flag = "text-descriptions" -> tp.text_descriptions
      [] flag = "original" -> tp.original
      [] flag = "commentary" -> tp.commentary

Supports(track_type, flag) ==
    CASE flag \in {"forced-display", "text-descriptions"} -> track_type = "Subtitle"
      [] flag \in {"hearing-impaired", "visual-impaired"} -> track_type = "Audio"
      [] flag = "commentary" -> track_type \in {"Audio", "Subtitle"}
      [] OTHER -> TRUE

\* C27: for every track whose arguments were built, each of the eight
\* flags is among the arguments exactly when its own setting is configured
\* for the track and the track type supports the flag, with the yes/no
\* value of its own setting.
C27_FlagsFollowOwnSetting ==
    \A j \in 1..Len(x_args) : \A flag \in FlagNames :
        { o \in x_args[j].flags : o.flag = flag } =
            IF Supports(x_tracks[j].track_type, flag)
            THEN { [flag |-> flag, value |-> BoolToYesNo(b)] :
                     b \in OwnSetting(ConfiguredFor(j), flag) }
            ELSE {}

(***************************************************************************)
(* The adapters and the program.                                           *)
(***************************************************************************)
\* C28: no stage that runs an external tool (mkvextract in extract, ffmpeg
\* in convert, mkvmerge in remux) ends by aborting the program, however
\* the subprocess ends: the only stage that can stop the program is the
\* conversion stage of a policy with subtitle or video conversion
\* parameters (the unimplemented placeholders).
C28_AdaptersNeverAbort ==
    \A j \in LogIdx :
        log[j].result = "panic" =>
            /\ log[j].stage = "convert"
            /\ \/ params.subtitle_tracks.conversion # None
               \/ params.video_tracks.conversion # None

(***************************************************************************)
(* Building the encoder's argument list.                                   *)
(***************************************************************************)
\* C29: for every target codec and parameter combination, building the
\* argument list never aborts the program; with invalid parameters the
\* encoder is never invoked and convert_all_audio does not return true once
\* an audio track was reached; and for Opus the parameters are invalid
\* exactly when vbr is a non-Opus variant or compression_level exceeds 10.
C29_ArgumentListNeverAborts ==
    /\ a_pc # "panicked_validate"
    /\ Validate(a_params) = "invalid" =>
          /\ a_calls = <<>>
          /\ a_result = Some(TRUE) => AudioIndices(a_tracks) = {}
    /\ a_params.codec = Some("Opus") =>
          (Validate(a_params) = "invalid" <=>
              \/ \E v \in a_params.vbr : v.kind # "Opus"
              \/ \E c \in a_params.compression_level : c > 10)

(***************************************************************************)
(* Internal attachments (SpecAttach): filter_internal_attachments and the  *)
(* attachment branch of extract, as process calls them.                    *)
(***************************************************************************)
MaxAttachments == 3

\* Vec::iter().filter_map(..).collect() over a sequence.
RECURSIVE KeepOnly(_, _)
KeepOnly(s, keep) ==
    IF s = <<>> THEN <<>>
    ELSE (IF Head(s) \in keep THEN <<Head(s)>> ELSE <<>>) \o KeepOnly(Tail(s), keep)

\* MediaFile::filter_internal_attachments: self.attachments afterwards.
FilterInternalAttachments(attachments, p) ==
    IF attachments = <<>> THEN attachments
    ELSE IF UNION p.import_original_extensions = {} THEN attachments
    ELSE KeepOnly(attachments,
            { a \in { attachments[j] : j \in 1..Len(attachments) } :
                /\ GetFileExtension(a) # None
                /\ GetFileExtension(a) \subseteq UNION p.import_original_extensions })

\* extract_attachments, lines 382-387: the "<id>:<name>" arguments.
AttachmentArguments(attachments) ==
    [j \in 1..Len(attachments) |-> [id |-> j, name |-> attachments[j]]]

\* What mkvextract does with "attachments <id>:<name> ...": the attachment
\* with that id in the container, its id being its 1-based position, is
\* written to the file <name>.  A payload is named after its attachment.
MkvExtractAttachments(container, args) ==
    { [file |-> args[j].name, payload |-> container[args[j].id]] :
        j \in { n \in 1..Len(args) : args[n].id \in 1..Len(container) } }

AttachmentNames ==
    { <<"cover", "png">>, <<"font", "ttf">>, <<"bold", "TTF">>, <<"README">> }

\* Attachment lists of a container: distinct names, in any order.
AttachmentLists ==
    { s \in UNION { [1..n -> AttachmentNames] : n \in 0..MaxAttachments } :
        \A p \in 1..Len(s), q \in 1..Len(s) : p # q => s[p] # s[q] }

AttachmentParams ==
    { [import_from_original |-> b, import_original_extensions |-> e] :
        b \in BOOLEAN,
        e \in {None, Some({}), Some({"ttf"}), Some({"png"}), Some({"ttf", "png"})} }

\* from_path copied the container's attachment names into self.attachments.
InitAttach ==
    /\ BatchIdle /\ FilterIdle /\ TitleIdle /\ MatcherIdle
    /\ CreateIdle /\ ConvertIdle /\ MuxIdle
    /\ e_container \in AttachmentLists
    /\ e_params \in AttachmentParams
    /\ e_attachments = e_container
    /\ e_args = <<>>
    /\ e_written = {}
    /\ e_pc = "filter"

\* process, line 791.
FilterAttachmentsStep ==
    /\ e_pc = "filter"
    /\ e_attachments' = FilterInternalAttachments(e_attachments, e_params)
    /\ e_pc' = "extract"
    /\ UNCHANGED <<e_container, e_params, e_args, e_written>>
    /\ UNCHANGED <<batch_vars, filter_vars, title_vars, matcher_vars>>
    /\ UNCHANGED <<create_vars, convert_vars, mux_vars>>

\* extract, lines 356-360, after the tracks were extracted: the attachments
\* are extracted when import_from_original is set, otherwise the list is
\* cleared.  The files are written when mkvextract exits with 0 or 1.
ExtractAttachmentsStep ==
    /\ e_pc = "extract"
    /\ IF e_params.import_from_original
       THEN IF e_attachments = <<>>
            THEN /\ e_pc' = "extracted"
                 /\ UNCHANGED <<e_attachments, e_args, e_written>>
            ELSE \E o \in AdapterOutcomes :
                    /\ e_args' = AttachmentArguments(e_attachments)
                    /\ e_written' =
                          IF o \in {"exit0", "exit1"}
                          THEN MkvExtractAttachments(e_container,
                                    AttachmentArguments(e_attachments))
                          ELSE {}
                    /\ e_pc' = CASE MkvOutcome(o) = "ok" -> "extracted"
                                 [] MkvOutcome(o) = "fail" -> "failed"
                                 [] MkvOutcome(o) = "panic" -> "panicked"
                    /\ UNCHANGED e_attachments
       ELSE /\ e_attachments' = <<>>
            /\ e_pc' = "extracted"
            /\ UNCHANGED <<e_args, e_written>>
    /\ UNCHANGED <<e_container, e_params>>
    /\ UNCHANGED <<batch_vars, filter_vars, title_vars, matcher_vars>>
    /\ UNCHANGED <<create_vars, convert_vars, mux_vars>>

NextAttach == FilterAttachmentsStep \/ ExtractAttachmentsStep

SpecAttach == InitAttach /\ [][NextAttach]_vars

\* C30: every argument handed to mkvextract pairs a kept attachment's name
\* with the position that attachment has in the container's list, so each
\* file written holds the payload of the attachment it is named after.
C30_OwnPayload ==
    /\ \A j \in 1..Len(e_args) : e_container[e_args[j].id] = e_args[j].name
    /\ \A w \in e_written : w.payload = w.file

============================================================================
